---- MODULE Spec2Model ----
(***************************************************************************)
(* Model of the survey analysis scripts (src/scripts): the descriptive     *)
(* distributions, the top-2-box percentages of the comparison and segment  *)
(* analyses, and the significance tests.                                   *)
(*                                                                         *)
(* Python values are tagged records: NaN, Inf, IntVal(n), StrVal(s) and    *)
(* FltVal(n, d), the decimal n / 10^d (a float rounded to d digits).  A    *)
(* label is a sequence of text pieces; ":" and " " are pieces of their     *)
(* own, so that the separator ": " is two adjacent pieces.                 *)
(***************************************************************************)
EXTENDS Integers, Sequences, FiniteSets, TLC

VARIABLES
    df,         \* the loaded respondent table: a sequence of rows
    users,      \* the running script's own table of the users (A101 = 1)
    seg,        \* the segment variable of the running script's loop over segments
    variables,  \* the codebook's Variables table: a sequence of [VAR, LABEL, TYPE]
    value_map,  \* the Value Meaning Map: variable -> (response string -> meaning)
    pc,         \* the position of the running script
    out,        \* the result tables written so far: file name -> table
    recs,       \* the records the running script has collected in memory
    args,       \* the arguments of the statistic called on its own
    ret         \* what that call returned

vars == <<df, users, seg, variables, value_map, pc, out, recs, args, ret>>

\* The largest number of respondent rows of a loaded table, and of a table
\* under the codebook with six A501 reasons.
MaxRows == 2
MaxRowsWide == 1

(***************************************************************************)
(* Values                                                                  *)
(***************************************************************************)
NaN == [t |-> "nan"]
Inf == [t |-> "inf"]
IntVal(n) == [t |-> "int", v |-> n]
FltVal(n, d) == [t |-> "float", v |-> n, d |-> d]
StrVal(s) == [t |-> "str", s |-> s]

Pow10(d) == IF d = 0 THEN 1 ELSE IF d = 1 THEN 10 ELSE IF d = 2 THEN 100 ELSE 1000

RECURSIVE SumSeq(_)
SumSeq(s) == IF s = <<>> THEN 0 ELSE Head(s) + SumSeq(Tail(s))

\* np.floor in place of round: the digits after the d-th are cut off.
RoundDown(a, b) == a \div b

\* numpy's round of a / b (a >= 0, b > 0) to an integer: half to even.
RoundHalfEven(a, b) ==
    LET q == a \div b
        r == a % b
    IN  IF 2 * r > b THEN q + 1
        ELSE IF 2 * r < b THEN q
        ELSE IF q % 2 = 0 THEN q ELSE q + 1

\* (c / total * 100).round(d) of pandas and round(c / total * 100, d) on numpy
\* numbers: 0 / 0 is NaN and c / 0 is inf, neither raises.
Percent(c, total, d) ==
    IF total = 0 THEN (IF c = 0 THEN NaN ELSE Inf)
    ELSE FltVal(RoundHalfEven(c * 100 * Pow10(d), total), d)

\* pd.to_numeric(x, errors='coerce') of one cell.
to_numeric(x) ==
    IF x.t = "int" THEN x
    ELSE IF x.t = "float" THEN x
    ELSE NaN

(***************************************************************************)
(* Labels                                                                  *)
(***************************************************************************)
Txt(s) == <<s>>
Prefixed(g, s) == <<g, ":", " ">> \o s

\* The index of the first ": " in s, 0 when there is none.
FindSep(s) ==
    LET hits == {i \in 1..(Len(s) - 1) : s[i] = ":" /\ s[i + 1] = " "}
    IN  IF hits = {} THEN 0 ELSE CHOOSE i \in hits : \A j \in hits : i <= j

\* descriptive_stats.normalize_label on a string.
normalize_label(label) ==
    IF FindSep(label) > 0
    THEN SubSeq(label, FindSep(label) + 2, Len(label))
    ELSE label

short_labels ==
    (Txt("Schnelligkeit der Antworten") :> Txt("Geschwindigkeit")) @@
    (Txt("Genauigkeit der Antworten") :> Txt("Genauigkeit")) @@
    (Txt("Faehigkeit, Probleme effektiv zu loesen") :> Txt("Problemloesung")) @@
    (Txt("Natuerliche, menschliche Interaktion") :> Txt("Menschlichkeit")) @@
    (Txt("Einfache Bedienung (Auswahloptionen)") :> Txt("Bedienbarkeit")) @@
    (Txt("Kontextverstaendnis (Chatverlauf wird genutzt)") :> Txt("Kontext")) @@
    (Txt("Freundlichkeit / Tonalitaet der Antwort") :> Txt("Tonalitaet")) @@
    (Txt("Datenschutz & Vertrauenswuerdigkeit") :> Txt("Datenschutz"))

\* short_labels.get(core, core)
Shorten(core) == IF core \in DOMAIN short_labels THEN short_labels[core] ELSE core

\* 'Andere' in core
HasAndere(core) == \E i \in 1..Len(core) : core[i] = "Andere"

(***************************************************************************)
(* Codebook and table access                                               *)
(***************************************************************************)
\* A variable code: the question's prefix and the number of the sub-variable
\* (0 for a variable without "_nn" suffix).
Var(p, i) == [p |-> p, i |-> i]

\* v.startswith(prefix + '_')
\* The value of seg before the loop over the segments.
NoSeg == Var("", 0)

StartsWith(v, prefix) == v.p = prefix /\ v.i > 0

\* [v for v in variables['VAR'] if v.startswith(prefix + '_')]
SubVars(prefix) ==
    SelectSeq([i \in 1..Len(variables) |-> variables[i].VAR],
              LAMBDA v : StartsWith(v, prefix))

\* variables.loc[variables['VAR'] == var, 'LABEL'].iloc[0]
LabelOf(var) ==
    LET hits == {i \in 1..Len(variables) : variables[i].VAR = var}
    IN  variables[CHOOSE i \in hits : \A j \in hits : i <= j].LABEL

\* x == n on numbers: 2 and 2.0 are equal, NaN equals nothing.
NumEq(x, n) == (x.t = "int" /\ x.v = n) \/ (x.t = "float" /\ x.v = n * Pow10(x.d))

\* df[df['A101'] == code]
Subset(code) == SelectSeq(df, LAMBDA row : NumEq(row.A101, code))

\* (pd.to_numeric(df_sub[var], errors='coerce') == 2).sum()
CountSelected(df_sub, var) ==
    Cardinality({i \in 1..Len(df_sub) : NumEq(to_numeric(df_sub[i].c[var]), 2)})

(***************************************************************************)
(* descriptive_stats.py: the multi-select distributions                    *)
(***************************************************************************)
desired_order_A501 ==
    << Txt("Ich bevorzuge persoenlichen Kontakt (z.B. Hotline, E-Mail)"),
       Txt("Ich finde Service-Chatbots zu kompliziert oder unpraktisch"),
       Txt("Ich traue Service-Chatbots nicht zu, mir wirklich helfen zu koennen"),
       Txt("Ich habe bisher keine Service-Chatbots auf Webseiten gesehen"),
       Txt("Datenschutzbedenken oder mangelndes Vertrauen"),
       Txt("Ich habe negative Erfahrungen selber gemacht"),
       Txt("Ich habe negative Erfahrungen von anderen gehoert"),
       Txt("Ich wusste nicht, dass Service-Chatbots hilfreich sein koennen"),
       Txt("Andere") >>

desired_order_A203 ==
    << Txt("Online-Shops / E-Commerce"),
       Txt("Kundenservice-Portale (Telekommunikation, Banken, Versicherungen)"),
       Txt("Buchungsseiten (Reisen, Hotels, Tickets)"),
       Txt("Webseiten von Behoerden oder oeffentlichen Einrichtungen"),
       Txt("Andere") >>

Range(s) == {s[i] : i \in 1..Len(s)}

\* The label a sub-variable is counted under in describe_A501 / describe_A203.
GroupLabel(var) ==
    LET core == normalize_label(LabelOf(var))
    IN  IF HasAndere(core) THEN Txt("Andere") ELSE Shorten(core)

\* df_tmp.groupby('Option', as_index=False).sum(): label -> summed count.
GroupCounts(df_sub, subvars) ==
    [lab \in {GroupLabel(subvars[i]) : i \in 1..Len(subvars)} |->
        SumSeq([i \in 1..Len(subvars) |->
                   IF GroupLabel(subvars[i]) = lab
                   THEN CountSelected(df_sub, subvars[i]) ELSE 0])]

\* df_grouped.set_index('Option').reindex(desired_order).reset_index(): one row
\* per desired label, in that order; a label the table lacks gets NaN in every
\* column (and turns the integer counts into floats), a label outside the
\* desired order is dropped.
Reindex(tab, order) ==
    LET complete == \A i \in 1..Len(order) : order[i] \in DOMAIN tab
    IN  [i \in 1..Len(order) |->
            IF order[i] \in DOMAIN tab
            THEN [Option |-> order[i],
                  Haeufigkeit |-> IF complete THEN IntVal(tab[order[i]].Haeufigkeit)
                                  ELSE FltVal(tab[order[i]].Haeufigkeit, 0),
                  Prozent |-> tab[order[i]].Prozent]
            ELSE [Option |-> order[i], Haeufigkeit |-> NaN, Prozent |-> NaN]]

\* The table describe_A501 and describe_A203 write: grouped counts, percent of
\* all selections rounded to one digit, reindexed to the desired order.
GroupedTable(df_sub, prefix, order) ==
    LET counts == GroupCounts(df_sub, SubVars(prefix))
        total  == SumSeq([i \in 1..Len(SubVars(prefix)) |->
                             CountSelected(df_sub, SubVars(prefix)[i])])
        tab    == [lab \in DOMAIN counts |->
                      [Haeufigkeit |-> counts[lab],
                       Prozent |-> Percent(counts[lab], total, 1)]]
    IN  Reindex(tab, order)

\* The table describe_multi writes: one row per sub-variable, in codebook
\* order, percent of all selections rounded to two digits.
MultiTable(df_sub, prefix) ==
    LET subvars == SubVars(prefix)
        counts  == [i \in 1..Len(subvars) |-> CountSelected(df_sub, subvars[i])]
        total   == SumSeq(counts)
    IN  [i \in 1..Len(subvars) |->
            [Option |-> Shorten(normalize_label(LabelOf(subvars[i]))),
             Haeufigkeit |-> IntVal(counts[i]),
             Prozent |-> Percent(counts[i], total, 2)]]

\* An output file: <name>_<kind>, the name being a variable code or a prefix.
File(p, i, kind) == [p |-> p, i |-> i, kind |-> kind]

\* to_csv / savefig: the file now holds the table.
WriteTo(files, file, table) ==
    [f \in DOMAIN files \cup {file} |-> IF f = file THEN table ELSE files[f]]

Write(file, table) == WriteTo(out, file, table)

describe_A501 ==
    IF Len(Subset(2)) = 0 THEN out
    ELSE Write(File("A501", 0, "group.csv"), GroupedTable(Subset(2), "A501", desired_order_A501))

describe_A203 ==
    IF Len(Subset(1)) = 0 THEN out
    ELSE Write(File("A203", 0, "group.csv"), GroupedTable(Subset(1), "A203", desired_order_A203))

describe_multi(prefix) ==
    LET df_sub == Subset(IF prefix = "A501" THEN 2 ELSE 1)
    IN  IF Len(df_sub) = 0 THEN out
        ELSE Write(File(prefix, 0, "group.csv"), MultiTable(df_sub, prefix))

(***************************************************************************)
(* descriptive_stats.py: the single-choice distributions                   *)
(***************************************************************************)
multi_groups == {"A203", "A302", "A305", "A501"}

desired_order_A202 ==
    << Txt("Mehrmals pro Woche"), Txt("Einmal pro Woche"), Txt("Einmal pro Monat"),
       Txt("Seltener als einmal im Monat"),
       Txt("Ich nutze sie nur, wenn ich keine Alternative finde") >>

desired_order_A401 ==
    << Txt("Sehr zufrieden"), Txt("Zufrieden"), Txt("Neutral"),
       Txt("Unzufrieden"), Txt("Sehr unzufrieden") >>

desired_order_A402 ==
    << Txt("Ja, definitiv"), Txt("Eher ja"), Txt("Weiss nicht"),
       Txt("Eher nein"), Txt("Nein, definitiv nicht") >>

desired_order_A601 ==
    << Txt("18-25 Jahre"), Txt("26-35 Jahre"), Txt("36-45 Jahre"),
       Txt("46-55 Jahre"), Txt("Ueber 55 Jahre") >>

\* The value of a column in a row (A101 is the coerced column of its own).
Cell(row, var) == IF var = Var("A101", 0) THEN row.A101 ELSE row.c[var]

\* x.astype(str) of one cell.
AsStr(x) ==
    IF x.t = "int" THEN ToString(x.v)
    ELSE IF x.t = "float" THEN ToString(x.v) \o ".0"
    ELSE IF x.t = "nan" THEN "nan"
    ELSE x.s

\* df_sub[var].fillna('-9').astype(str) of one cell.
RawResponse(x) == IF x.t = "nan" THEN "-9" ELSE AsStr(x)

\* value_map.get(var, {})
MeaningsOf(var) == IF var \in DOMAIN value_map THEN value_map[var] ELSE <<>>

\* raw.map(value_map.get(var, {})).fillna('Missing'), then prefix stripping and
\* short-label substitution: the category a raw response is counted under.
ResolveLabel(var, raw) ==
    IF raw \in DOMAIN MeaningsOf(var)
    THEN Shorten(normalize_label(MeaningsOf(var)[raw]))
    ELSE Txt("Missing")

\* labels.value_counts(dropna=False): one entry per distinct label, by
\* descending count, equal counts in the order of first appearance.
value_counts(labels) ==
    LET D == Range(labels)
        cnt(l) == Cardinality({i \in 1..Len(labels) : labels[i] = l})
        first(l) == CHOOSE i \in 1..Len(labels) :
                       labels[i] = l /\ \A j \in 1..(i - 1) : labels[j] # l
        before(m, l) == cnt(m) > cnt(l) \/ (cnt(m) = cnt(l) /\ first(m) < first(l))
        pos(l) == 1 + Cardinality({m \in D : before(m, l)})
    IN  [i \in 1..Cardinality(D) |->
            LET l == CHOOSE l \in D : pos(l) = i
            IN  [label |-> l, count |-> cnt(l)]]

\* Counting the raw responses and labelling the counts afterwards: one row per
\* raw response, two rows with the same Antwort when two responses share a label.
QuestionTableByRaw(df_sub, var) ==
    LET raws   == [i \in 1..Len(df_sub) |-> Txt(RawResponse(Cell(df_sub[i], var)))]
        counts == value_counts(raws)
    IN  [i \in 1..Len(counts) |->
            [Antwort |-> ResolveLabel(var, counts[i].label[1]),
             Haeufigkeit |-> IntVal(counts[i].count),
             Prozent |-> Percent(counts[i].count, Len(raws), 2)]]

\* df_desc of describe_question: Antwort, Haeufigkeit, Prozent (of the subset,
\* two digits).  The ordinal columns Mittelwert, Median and Std are constant
\* over the rows and are not part of the model.
QuestionTable(df_sub, var) ==
    LET labels == [i \in 1..Len(df_sub) |-> ResolveLabel(var, RawResponse(Cell(df_sub[i], var)))]
        counts == value_counts(labels)
    IN  [i \in 1..Len(counts) |->
            [Antwort |-> counts[i].label,
             Haeufigkeit |-> IntVal(counts[i].count),
             Prozent |-> Percent(counts[i].count, Len(labels), 2)]]

\* The rows of a table keyed by their Antwort.
ByAntwort(tab) ==
    [a \in {tab[i].Antwort : i \in 1..Len(tab)} |->
        tab[CHOOSE i \in 1..Len(tab) : tab[i].Antwort = a]]

\* df_desc.set_index('Antwort').reindex(desired_order).reset_index() (A202)
ReindexAntwort(tab, order) ==
    LET complete == \A i \in 1..Len(order) : order[i] \in DOMAIN ByAntwort(tab)
    IN  [i \in 1..Len(order) |->
            IF order[i] \in DOMAIN ByAntwort(tab)
            THEN [Antwort |-> order[i],
                  Haeufigkeit |-> IF complete THEN ByAntwort(tab)[order[i]].Haeufigkeit
                                  ELSE FltVal(ByAntwort(tab)[order[i]].Haeufigkeit.v, 0),
                  Prozent |-> ByAntwort(tab)[order[i]].Prozent]
            ELSE [Antwort |-> order[i], Haeufigkeit |-> NaN, Prozent |-> NaN]]

\* reindex(desired_order, fill_value=0), then Prozent recomputed over the sum
\* of the reindexed counts (A401, A402, A601).
ReindexFill(tab, order) ==
    LET cnt(i) == IF order[i] \in DOMAIN ByAntwort(tab)
                  THEN ByAntwort(tab)[order[i]].Haeufigkeit.v ELSE 0
        total  == SumSeq([i \in 1..Len(order) |-> cnt(i)])
    IN  [i \in 1..Len(order) |->
            [Antwort |-> order[i],
             Haeufigkeit |-> IntVal(cnt(i)),
             Prozent |-> Percent(cnt(i), total, 2)]]

\* The table describe_question hands to the plot function.
PlotTable(var, df_desc) ==
    IF var = Var("A202", 0) THEN ReindexAntwort(df_desc, desired_order_A202)
    ELSE IF var = Var("A401", 0) THEN ReindexFill(df_desc, desired_order_A401)
    ELSE IF var = Var("A402", 0) THEN ReindexFill(df_desc, desired_order_A402)
    ELSE IF var = Var("A601", 0) THEN ReindexFill(df_desc, desired_order_A601)
    ELSE df_desc

describe_question(var) ==
    LET df_sub == IF var \in {Var("A101", 0), Var("A601", 0), Var("A602", 0)}
                  THEN df ELSE Subset(1)
        df_desc == QuestionTable(df_sub, var)
    IN  IF StartsWith(var, "A301") \/ \E p \in multi_groups : StartsWith(var, p)
        THEN out
        ELSE IF Len(df_sub) = 0 THEN out
        ELSE WriteTo(Write(File(var.p, var.i, "descriptives.csv"), df_desc),
                     File(var.p, var.i, "distribution.pdf"), PlotTable(var, df_desc))

(***************************************************************************)
(* descriptive_stats.py: loading                                           *)
(***************************************************************************)
\* df['A101'] = pd.to_numeric(df['A101'], errors='coerce'): an integer column
\* when every cell is an integer, a float column as soon as one is missing.
Load(raw) ==
    LET allInt == \A i \in 1..Len(raw) : raw[i].A101.t = "int"
        coerce(x) == IF to_numeric(x).t = "int" /\ ~allInt
                     THEN FltVal(x.v, 0) ELSE to_numeric(x)
    IN  [i \in 1..Len(raw) |-> [raw[i] EXCEPT !.A101 = coerce(@)]]

\* value_map.setdefault(row['VAR'], {})[str(row['RESPONSE'])] = row['MEANING']
\* over the rows of the Values table: a later row overrides an earlier one.
RECURSIVE BuildValueMap(_)
BuildValueMap(values) ==
    IF values = <<>> THEN <<>>
    ELSE LET rest == BuildValueMap(SubSeq(values, 1, Len(values) - 1))
             row  == values[Len(values)]
             old  == IF row.VAR \in DOMAIN rest THEN rest[row.VAR] ELSE <<>>
             new  == [r \in DOMAIN old \cup {ToString(row.RESPONSE)} |->
                         IF r = ToString(row.RESPONSE) THEN row.MEANING ELSE old[r]]
         IN  [v \in DOMAIN rest \cup {row.VAR} |-> IF v = row.VAR THEN new ELSE rest[v]]

(***************************************************************************)
(* descriptive_stats.py: the inputs of the model                           *)
(***************************************************************************)
VarRow(var, label, type) == [VAR |-> var, LABEL |-> label, TYPE |-> type]

long_label_1 == Txt("Schnelligkeit der Antworten")
long_label_2 == Txt("Genauigkeit der Antworten")

\* Six reasons of the desired order: the codebook a survey with that list has.
CodebookCanonical ==
    [i \in 1..6 |-> VarRow(Var("A501", i), Prefixed("A501", desired_order_A501[i]), "DICHOTOMOUS")]

\* Two "Andere" options that are grouped, and a label the desired order lacks.
CodebookAndere ==
    << VarRow(Var("A501", 1), Prefixed("A501", desired_order_A501[1]), "DICHOTOMOUS"),
       VarRow(Var("A501", 2), Prefixed("A501", <<"Andere", " (bitte angeben)">>), "DICHOTOMOUS"),
       VarRow(Var("A501", 3), <<"Andere", " ", "Gruende">>, "DICHOTOMOUS"),
       VarRow(Var("A203", 1), Prefixed("A203", desired_order_A203[1]), "DICHOTOMOUS"),
       VarRow(Var("A203", 2), Prefixed("A203", Txt("Soziale Medien")), "DICHOTOMOUS"),
       VarRow(Var("A302", 1), Prefixed("A302", long_label_1), "DICHOTOMOUS"),
       VarRow(Var("A302", 2), Prefixed("A302", long_label_2), "DICHOTOMOUS"),
       VarRow(Var("A305", 1), Prefixed("A305", long_label_1), "DICHOTOMOUS") >>

\* "Andere" options only for A203, a reason the desired order lacks, the same
\* feature twice in A302, a label without group prefix.
CodebookShared ==
    << VarRow(Var("A501", 1), Prefixed("A501", Txt("Keine Angabe")), "DICHOTOMOUS"),
       VarRow(Var("A501", 2), Prefixed("A501", desired_order_A501[2]), "DICHOTOMOUS"),
       VarRow(Var("A203", 1), Prefixed("A203", <<"Andere", " Webseiten">>), "DICHOTOMOUS"),
       VarRow(Var("A203", 2), Txt("Andere"), "DICHOTOMOUS"),
       VarRow(Var("A302", 1), Prefixed("A302", long_label_1), "DICHOTOMOUS"),
       VarRow(Var("A302", 2), long_label_1, "DICHOTOMOUS"),
       VarRow(Var("A305", 1), Txt("Datenschutz & Vertrauenswuerdigkeit"), "DICHOTOMOUS") >>

\* The answer columns a respondent of the given group can have filled: the
\* survey shows A501 to non-users only, the demographic questions A601 and
\* A602 to everyone, and the other questions to users only.
Answered(var, a101) ==
    IF var.p \in {"A601", "A602"} THEN TRUE
    ELSE IF var.p = "A501" THEN a101 = IntVal(2)
    ELSE a101 = IntVal(1)

\* The rows of a table over the given columns, each answered cell from cells.
RawRows(columns, cells) ==
    UNION {{[A101 |-> a, c |-> c] :
              c \in {f \in [columns -> cells \cup {NaN}] :
                        \A v \in columns :
                            f[v] \in (IF Answered(v, a) THEN cells ELSE {NaN})}} :
           a \in {IntVal(1), IntVal(2), NaN}}

Columns(codebook) == {codebook[i].VAR : i \in 1..Len(codebook)} \ {Var("A101", 0)}

InitMulti ==
    /\ variables \in {CodebookCanonical, CodebookAndere, CodebookShared}
    /\ value_map = <<>>
    /\ \E n \in 0..(IF variables = CodebookCanonical THEN MaxRowsWide ELSE MaxRows) :
         \E raw \in [1..n -> RawRows(Columns(variables), {IntVal(1), IntVal(2)})] :
            df = Load(raw)
    /\ pc = [fn |-> "describe_A501", i |-> 0]
    /\ out = <<>>
    /\ recs = <<>>
    /\ args = <<>>
    /\ ret = <<>>
    /\ users = <<>>
    /\ seg = NoSeg

\* The single-choice variables of the model: one of them, and A101, make the
\* codebook of a run.
QuestionVars == {Var("A202", 0), Var("A401", 0), Var("A402", 0), Var("A601", 0), Var("A403", 0)}

DesiredOrderOf(var) ==
    IF var = Var("A202", 0) THEN desired_order_A202
    ELSE IF var = Var("A402", 0) THEN desired_order_A402
    ELSE IF var = Var("A601", 0) THEN desired_order_A601
    ELSE desired_order_A401

\* The meanings the Values table may give a response of var: two categories of
\* its order, the first one again with a group prefix, a long feature label.
MeaningPool(var) ==
    { DesiredOrderOf(var)[1], DesiredOrderOf(var)[2],
      Prefixed("Antwort", DesiredOrderOf(var)[1]), long_label_1 }

ValueRow(var, response, meaning) == [VAR |-> var, RESPONSE |-> response, MEANING |-> meaning]

\* The Values tables of the model: A101 is Ja / Nein; the responses 1 and 2 of
\* var have a meaning of the pool or none, -9 has "nicht beantwortet" or none,
\* 3 has none.
ValuesTables(var) ==
    LET rows(r, pool) == {<<>>} \cup {<<ValueRow(var, r, m)>> : m \in pool}
    IN  { << ValueRow(Var("A101", 0), 1, Txt("Ja")), ValueRow(Var("A101", 0), 2, Txt("Nein")) >>
              \o r1 \o r2 \o r9 :
          r1 \in rows(1, MeaningPool(var)), r2 \in rows(2, MeaningPool(var)),
          r9 \in rows(-9, {Txt("nicht beantwortet")}) }

InitQuestion ==
    /\ \E var \in QuestionVars :
         /\ variables = << VarRow(Var("A101", 0), Txt("Nutzung"), "NOMINAL"),
                          VarRow(var, Prefixed("Frage", Txt("Antwort")), "ORDINAL") >>
         /\ \E values \in ValuesTables(var) : value_map = BuildValueMap(values)
    /\ \E n \in 0..MaxRows :
         \E raw \in [1..n -> RawRows(Columns(variables),
                                    {NaN, IntVal(1), IntVal(2), IntVal(3), IntVal(-9)})] :
            df = Load(raw)
    /\ pc = [fn |-> "describe_A501", i |-> 0]
    /\ out = <<>>
    /\ recs = <<>>
    /\ args = <<>>
    /\ ret = <<>>
    /\ users = <<>>
    /\ seg = NoSeg

(***************************************************************************)
(* descriptive_stats.py: main                                              *)
(***************************************************************************)
At(fn, i) == [fn |-> fn, i |-> i]

DescribeA501 ==
    /\ pc = At("describe_A501", 0)
    /\ out' = describe_A501
    /\ pc' = At("describe_A203", 0)
    /\ UNCHANGED <<users, seg, df, variables, value_map, recs, args, ret>>

DescribeA203 ==
    /\ pc = At("describe_A203", 0)
    /\ out' = describe_A203
    /\ pc' = IF Len(variables) > 0 THEN At("describe_question", 1)
             ELSE At("describe_multi", 1)
    /\ UNCHANGED <<users, seg, df, variables, value_map, recs, args, ret>>

\* var is a column of the loaded table (A101 always is).
InTable(var) == var = Var("A101", 0) \/ \A i \in 1..Len(df) : var \in DOMAIN df[i].c

\* df_sub[var] in describe_question raises KeyError: the variable is not
\* skipped, its respondents are not empty, and the table has no such column.
QuestionRaises(var) ==
    /\ ~(StartsWith(var, "A301") \/ \E p \in multi_groups : StartsWith(var, p))
    /\ Len(IF var \in {Var("A101", 0), Var("A601", 0), Var("A602", 0)}
           THEN df ELSE Subset(1)) > 0
    /\ ~InTable(var)

\* One iteration of the loop over the codebook's variables; main has no
\* handler around the call, an exception of describe_question ends the run.
DescribeQuestion ==
    /\ pc.fn = "describe_question"
    /\ LET var   == variables[pc.i].VAR
           typed == variables[pc.i].TYPE \in {"NOMINAL", "ORDINAL", "DICHOTOMOUS"}
       IN  IF typed /\ QuestionRaises(var)
           THEN /\ out' = out
                /\ pc' = At("raised", 0)
           ELSE /\ out' = IF typed THEN describe_question(var) ELSE out
                /\ pc' = IF pc.i < Len(variables) THEN At("describe_question", pc.i + 1)
                         ELSE At("describe_multi", 1)
    /\ UNCHANGED <<users, seg, df, variables, value_map, recs, args, ret>>

\* The loop over multi_groups, A501 and A203 skipped: A302, then A305.
DescribeMulti ==
    /\ pc.fn = "describe_multi"
    /\ out' = describe_multi(IF pc.i = 1 THEN "A302" ELSE "A305")
    /\ pc' = IF pc.i = 1 THEN At("describe_multi", 2) ELSE At("done", 0)
    /\ UNCHANGED <<users, seg, df, variables, value_map, recs, args, ret>>

NextDesc == DescribeA501 \/ DescribeA203 \/ DescribeQuestion \/ DescribeMulti

\* The codebook of a usage question and two feature options, and tables that
\* have a column for each of its variables, or none for the usage question.
CodebookUsage ==
    << VarRow(Var("A101", 0), Txt("Nutzung"), "NOMINAL"),
       VarRow(Var("A202", 0), Txt("Nutzungshaeufigkeit"), "ORDINAL"),
       VarRow(Var("A302", 1), Prefixed("A302", long_label_1), "DICHOTOMOUS"),
       VarRow(Var("A305", 1), Prefixed("A305", long_label_1), "DICHOTOMOUS") >>

InitColumns ==
    /\ variables = CodebookUsage
    /\ value_map = <<>>
    /\ \E columns \in {Columns(variables), Columns(variables) \ {Var("A202", 0)}} :
         \E n \in 0..MaxRows :
            \E raw \in [1..n -> RawRows(columns, {IntVal(1), IntVal(2)})] : df = Load(raw)
    /\ pc = At("describe_A501", 0)
    /\ out = <<>>
    /\ recs = <<>>
    /\ args = <<>>
    /\ ret = <<>>
    /\ users = <<>>
    /\ seg = NoSeg

\* main over the tables of multi-select answers, and over the tables of
\* single-choice answers.
SpecDescMulti == InitMulti /\ [][NextDesc]_vars

SpecDescQuestion == InitQuestion /\ [][NextDesc]_vars

\* main over tables that may lack the column of a codebook variable.
SpecDescColumns == InitColumns /\ [][NextDesc]_vars

(***************************************************************************)
(* Properties of the descriptive analysis                                  *)
(***************************************************************************)
Abs(x) == IF x < 0 THEN -x ELSE x

IsNumber(x) == x.t \in {"int", "float"}

GroupFile(prefix) == File(prefix, 0, "group.csv")

\* The selections of a multi-select question among its respondents.
TotalSelections(prefix) ==
    LET df_sub == Subset(IF prefix = "A501" THEN 2 ELSE 1)
    IN  SumSeq([i \in 1..Len(SubVars(prefix)) |-> CountSelected(df_sub, SubVars(prefix)[i])])

\* The sum of the percentages, and of the counts, of the rows that have one
\* (a percentage FltVal(n, d) counts n).
SumProzent(tab) ==
    SumSeq([i \in 1..Len(tab) |-> IF tab[i].Prozent.t = "float" THEN tab[i].Prozent.v ELSE 0])

SumHaeufigkeit(tab) ==
    SumSeq([i \in 1..Len(tab) |-> IF IsNumber(tab[i].Haeufigkeit) THEN tab[i].Haeufigkeit.v ELSE 0])

RowsWithProzent(tab) == Cardinality({i \in 1..Len(tab) : tab[i].Prozent.t = "float"})

\* C2: a percentage whose denominator is zero is 0, never NaN or undefined:
\* every row of a written table that has a count has a finite percentage, and
\* that percentage is 0 when the counts of the table sum to zero.
C2_ZeroDenominatorYieldsZero ==
    \A f \in DOMAIN out : \A i \in 1..Len(out[f]) :
        IsNumber(out[f][i].Haeufigkeit) =>
            /\ out[f][i].Prozent.t = "float"
            /\ SumHaeufigkeit(out[f]) = 0 => out[f][i].Prozent.v = 0

\* C3 as claimed: whenever a multi-select question has selections, the
\* percentages of the rows of its table sum to 100 within 0.1.
C3_SumIs100Within01 ==
    /\ \A p \in {"A501", "A203"} :
          GroupFile(p) \in DOMAIN out /\ TotalSelections(p) > 0 =>
             Abs(SumProzent(out[GroupFile(p)]) - 1000) <= 1
    /\ \A p \in {"A302", "A305"} :
          GroupFile(p) \in DOMAIN out /\ TotalSelections(p) > 0 =>
             Abs(SumProzent(out[GroupFile(p)]) - 10000) <= 10

\* C3 as amended: the A302 and A305 percentages (two digits) sum to 100 within
\* 0.1; the A501 and A203 percentages (one digit, rows of the desired order
\* only) sum to the share of all selections that the rows of the table hold,
\* within 0.05 for each row that has a percentage.
C3_SumIsShareOfKeptRows ==
    /\ \A p \in {"A501", "A203"} :
          GroupFile(p) \in DOMAIN out /\ TotalSelections(p) > 0 =>
             LET tab == out[GroupFile(p)]
             IN  2 * Abs(SumProzent(tab) * TotalSelections(p) - 1000 * SumHaeufigkeit(tab))
                    <= RowsWithProzent(tab) * TotalSelections(p)
    /\ \A p \in {"A302", "A305"} :
          GroupFile(p) \in DOMAIN out /\ TotalSelections(p) > 0 =>
             Abs(SumProzent(out[GroupFile(p)]) - 10000) <= 10

\* C3's case: six reasons selected once each are 16.7 percent each, 100.2 in sum.
C3_Witness ==
    /\ GroupFile("A501") \in DOMAIN out
    /\ TotalSelections("A501") = 6
    /\ SumProzent(out[GroupFile("A501")]) = 1002

\* The categories of a multi-select question before reindexing.
ObservedGroups(prefix) == {GroupLabel(SubVars(prefix)[i]) : i \in 1..Len(SubVars(prefix))}

IsZero(x) == IsNumber(x) /\ x.v = 0

\* C6: reindexing to a desired order that is a strict superset of the observed
\* categories gives every absent category a row with count 0 and percentage 0,
\* and leaves the percentage of every observed category as it was.
C6_ReindexFillsZero ==
    /\ \A p \in {"A501", "A203"} :
          LET order == IF p = "A501" THEN desired_order_A501 ELSE desired_order_A203
              df_sub == Subset(IF p = "A501" THEN 2 ELSE 1)
          IN  /\ GroupFile(p) \in DOMAIN out
              /\ ObservedGroups(p) \subseteq Range(order)
              /\ ObservedGroups(p) # Range(order)
              => \A i \in 1..Len(order) :
                    LET row == out[GroupFile(p)][i]
                    IN  IF order[i] \in ObservedGroups(p)
                        THEN row.Prozent = Percent(GroupCounts(df_sub, SubVars(p))[order[i]],
                                                   TotalSelections(p), 1)
                        ELSE IsZero(row.Haeufigkeit) /\ IsZero(row.Prozent)
    /\ \A var \in {Var("A202", 0), Var("A401", 0), Var("A402", 0), Var("A601", 0)} :
          LET csv == File(var.p, 0, "descriptives.csv")
              pdf == File(var.p, 0, "distribution.pdf")
              order == DesiredOrderOf(var)
          IN  /\ csv \in DOMAIN out /\ pdf \in DOMAIN out
              /\ DOMAIN ByAntwort(out[csv]) \subseteq Range(order)
              /\ DOMAIN ByAntwort(out[csv]) # Range(order)
              => \A i \in 1..Len(order) :
                    LET row == out[pdf][i]
                    IN  IF order[i] \in DOMAIN ByAntwort(out[csv])
                        THEN row.Prozent = ByAntwort(out[csv])[order[i]].Prozent
                        ELSE IsZero(row.Haeufigkeit) /\ IsZero(row.Prozent)

\* The respondents describe_question describes a variable over.
SubsetOf(var) ==
    IF var \in {Var("A101", 0), Var("A601", 0), Var("A602", 0)} THEN df ELSE Subset(1)

DescriptivesFile(var) == File(var.p, var.i, "descriptives.csv")

Described == {variables[i].VAR : i \in 1..Len(variables)}

ObservedResponses(var) ==
    {RawResponse(Cell(SubsetOf(var)[i], var)) : i \in 1..Len(SubsetOf(var))}

ObservedLabels(var) == {ResolveLabel(var, r) : r \in ObservedResponses(var)}

\* C4 as claimed: the table of a described variable has one row per distinct
\* observed value, its counts sum to n and its percentages to 100 (each
\* rounded to two digits).  Stated for the questions other than the user flag
\* A101, whose column is the one the loader coerces.
C4_OneRowPerObservedValue ==
    \A var \in Described \ {Var("A101", 0)} : DescriptivesFile(var) \in DOMAIN out =>
        LET tab == out[DescriptivesFile(var)]
        IN  /\ Len(tab) = Cardinality(ObservedResponses(var))
            /\ SumHaeufigkeit(tab) = Len(SubsetOf(var))
            /\ 2 * Abs(SumProzent(tab) - 10000) <= Len(tab)

\* C4 as amended: one row per distinct resolved label of the subset (responses
\* that are unmapped, or that share a meaning, share a row); counts sum to n,
\* percentages to 100 within 0.005 per row.
C4_OneRowPerResolvedLabel ==
    \A var \in Described : DescriptivesFile(var) \in DOMAIN out =>
        LET tab == out[DescriptivesFile(var)]
        IN  /\ Len(tab) = Cardinality(ObservedLabels(var))
            /\ {tab[i].Antwort : i \in 1..Len(tab)} = ObservedLabels(var)
            /\ SumHaeufigkeit(tab) = Len(SubsetOf(var))
            /\ 2 * Abs(SumProzent(tab) - 10000) <= Len(tab)

\* C4's case: a table written for responses of which two share a row.
C4_Witness ==
    \E var \in Described :
        /\ DescriptivesFile(var) \in DOMAIN out
        /\ var # Var("A101", 0)
        /\ Cardinality(ObservedResponses(var)) = 2
        /\ Len(out[DescriptivesFile(var)]) = 1
        /\ out[DescriptivesFile(var)][1].Antwort # Txt("Missing")

\* The response code of an answered cell, as the codebook writes it.
ResponseCode(x) == ToString(IF x.t = "float" THEN x.v \div Pow10(x.d) ELSE x.v)

\* The category C5 gives a respondent: Missing for an absent value, for the
\* sentinel -9 and for a response without entry in the Value Meaning Map, the
\* mapped meaning (prefix stripped, short label substituted) otherwise.
ClaimedCategory(var, x) ==
    IF x.t = "nan" \/ NumEq(x, -9) \/ ResponseCode(x) \notin DOMAIN MeaningsOf(var)
    THEN Txt("Missing")
    ELSE Shorten(normalize_label(MeaningsOf(var)[ResponseCode(x)]))

\* C5: every respondent of the subset is counted in exactly the category
\* that label resolution, as a function of (variable, raw response), gives.
C5_CountedUnderClaimedCategory ==
    \A var \in Described : DescriptivesFile(var) \in DOMAIN out =>
        LET tab == out[DescriptivesFile(var)]
            sub == SubsetOf(var)
            claimed(l) == Cardinality({i \in 1..Len(sub) : ClaimedCategory(var, Cell(sub[i], var)) = l})
        IN  /\ \A i \in 1..Len(tab) : tab[i].Haeufigkeit = IntVal(claimed(tab[i].Antwort))
            /\ SumHaeufigkeit(tab) = Len(sub)

(***************************************************************************)
(* comparison_analysis.py and segment_analysis.py: the top-2-box share     *)
(***************************************************************************)
\* The largest number of respondent rows of a table of feature ratings.
MaxRowsTop2 == 3

\* The feature variables the scripts loop over; the model's tables carry the
\* first two of the eight A301 ratings and of the eight A305 options, and the
\* segment variables A601 and A202 (of A601, A602, A202).
a301_vars == << Var("A301", 1), Var("A301", 2) >>
a305_vars == << Var("A305", 1), Var("A305", 2) >>
segments == << Var("A601", 0), Var("A202", 0) >>

\* The position of x in the sequence s.
IndexOf(s, x) == CHOOSE i \in 1..Len(s) : s[i] = x

\* label_order and a202_order of the segment analysis: the short labels of the
\* model's two features, and the first two of the five usage categories.
label_order == << Txt("Geschwindigkeit"), Txt("Genauigkeit") >>
a202_order == << Txt("Mehrmals pro Woche"), Txt("Einmal pro Woche") >>

\* The metrics the segment analysis plots.
metrics == << "Top2_Wichtigkeit", "Erfuellt" >>

\* A column assigned in users, seen from df.  users is a selection of df by
\* a boolean mask (df[df['A101'] == 1], in the segment analysis with .copy()):
\* pandas gives such a selection its own data, the loaded table keeps its
\* cells.
AssignedThroughView(loaded, local) ==
    [i \in 1..Len(loaded) |->
        IF NumEq(loaded[i].A101, 1)
        THEN LET k == Cardinality({j \in 1..i : NumEq(loaded[j].A101, 1)})
             IN  [loaded[i] EXCEPT !.c = [v \in DOMAIN @ |-> local[k].c[v]]]
        ELSE loaded[i]]

AssignedThrough(loaded, local) == loaded

\* var in users: the table has one column per variable of the codebook.
HasColumn(var) == var \in Columns(variables)

\* vals = pd.to_numeric(sub[var], errors='coerce').dropna()
NumericVals(sub, var) ==
    SelectSeq([i \in 1..Len(sub) |-> to_numeric(Cell(sub[i], var))],
              LAMBDA x : x # NaN)

\* vals.isin([1, 2]).sum()
CountTop2(vals) ==
    Cardinality({i \in 1..Len(vals) : NumEq(vals[i], 1) \/ NumEq(vals[i], 2)})

\* The same share without the guard on an empty vals.
Top2BoxUnguarded(sub, var) ==
    Percent(CountTop2(NumericVals(sub, var)), Len(NumericVals(sub, var)), 2)

\* round(vals.isin([1, 2]).sum() / len(vals) * 100 if len(vals) > 0 else 0, 2)
Top2Box(sub, var) ==
    LET vals == NumericVals(sub, var)
    IN  IF Len(vals) > 0 THEN Percent(CountTop2(vals), Len(vals), 2)
        ELSE IntVal(0)

\* label_map.get(v, v), and lbl[0] if len(lbl) > 0 else var
LabelOrVar(var) ==
    IF \E i \in 1..Len(variables) : variables[i].VAR = var THEN LabelOf(var)
    ELSE Txt(var.p)

\* One iteration of comparison_analysis's loop over a301_vars, on the users.
CompareTop2 ==
    /\ pc.fn = "comparison_top2"
    /\ LET var == a301_vars[pc.i]
       IN  recs' = IF ~HasColumn(var) THEN recs
                   ELSE Append(recs, [Merkmal |-> normalize_label(LabelOrVar(var)),
                                      Top2_Wichtigkeit |-> Top2Box(Subset(1), var)])
    /\ pc' = IF pc.i < Len(a301_vars) THEN At("comparison_top2", pc.i + 1)
             ELSE At("comparison_shorten", 0)
    /\ UNCHANGED <<users, seg, df, variables, value_map, out, args, ret>>

\* df_a301['Merkmal'].map(short_labels).fillna(df_a301['Merkmal']); a frame of
\* no records has no column 'Merkmal' and the lookup raises KeyError.
CompareShorten ==
    /\ pc = At("comparison_shorten", 0)
    /\ recs' = [i \in 1..Len(recs) |-> [recs[i] EXCEPT !.Merkmal = Shorten(@)]]
    /\ pc' = IF recs = <<>> THEN At("raised", 0) ELSE At("comparison_merge", 0)
    /\ UNCHANGED <<users, seg, df, variables, value_map, out, args, ret>>

\* The texts of the model in the order Python's string comparison gives them
\* (digits before upper case before lower case).
Collation ==
    << "1", "2", "3", "Einmal pro Woche", "Maennlich", "Mehrmals pro Woche", "Weiblich", "nan" >>

StrLess(a, b) ==
    \E i, j \in 1..Len(Collation) : Collation[i] = a[1] /\ Collation[j] = b[1] /\ i < j

\* sorted(S) for a set of labels.
RECURSIVE Sorted(_)
Sorted(S) ==
    IF S = {} THEN <<>>
    ELSE LET least == CHOOSE a \in S : \A b \in S \ {a} : StrLess(a, b)
         IN  <<least>> \o Sorted(S \ {least})

\* The column seg + '_lbl' of the segment analysis.
SegLbl(s) == Var(s.p \o "_lbl", 0)

\* df[seg] = df[seg].astype(str)
\* df[seg + '_lbl'] = df[seg].map(value_map.get(seg, {})).fillna(df[seg])
WithSegmentLabel(row, s) ==
    LET raw == AsStr(row.c[s])
        lbl == IF raw \in DOMAIN MeaningsOf(s) THEN MeaningsOf(s)[raw] ELSE Txt(raw)
    IN  [row EXCEPT !.c = [v \in DOMAIN row.c \cup {SegLbl(s)} |->
                              IF v = s THEN StrVal(raw)
                              ELSE IF v = SegLbl(s) THEN lbl
                              ELSE row.c[v]]]

\* sorted(df[seg + '_lbl'].unique()), df being the script's table of the users
Categories(s) == Sorted({users[i].c[SegLbl(s)] : i \in 1..Len(users)})

\* sub = df[df[seg + '_lbl'] == cat]
SubOf(s, cat) == SelectSeq(users, LAMBDA row : row.c[SegLbl(s)] = cat)

\* The records one category adds: the top-2-box share of each A301 rating,
\* then the share of the category's rows that have the A305 option at 2.
CategoryRecords(s, cat) ==
    LET sub == SubOf(s, cat)
    IN  [j \in 1..Len(a301_vars) |->
            [Kategorie |-> cat,
             Merkmal |-> normalize_label(LabelOrVar(a301_vars[j])),
             Top2_Wichtigkeit |-> Top2Box(sub, a301_vars[j])]]
        \o
        [j \in 1..Len(a305_vars) |->
            [Kategorie |-> cat,
             Merkmal |-> normalize_label(LabelOrVar(a305_vars[j])),
             Erfuellt |-> Percent(CountSelected(sub, a305_vars[j]), Len(sub), 2)]]

\* res_df[['Merkmal', 'Kategorie', metric]].dropna(): the records that have
\* the metric.
WithMetric(records, metric) ==
    SelectSeq(records, LAMBDA r : metric \in DOMAIN r /\ r[metric] # NaN)

\* pivot() raises ValueError when two records share Merkmal and Kategorie.
HasDuplicates(df_met) ==
    \E i, j \in 1..Len(df_met) :
        i < j /\ df_met[i].Merkmal = df_met[j].Merkmal /\ df_met[i].Kategorie = df_met[j].Kategorie

\* df_met.pivot(index='Merkmal', columns='Kategorie', values=metric).fillna(0):
\* a row per feature of df_met, a cell per category of df_met, 0 where df_met
\* has no record of the two.
Pivot(df_met, metric) ==
    LET index   == {df_met[i].Merkmal : i \in 1..Len(df_met)}
        columns == {df_met[i].Kategorie : i \in 1..Len(df_met)}
        hit(m, k) == {i \in 1..Len(df_met) : df_met[i].Merkmal = m /\ df_met[i].Kategorie = k}
    IN  [m \in index |->
            [k \in columns |->
                IF hit(m, k) = {} THEN IntVal(0)
                ELSE df_met[CHOOSE i \in hit(m, k) : TRUE][metric]]]

\* pivot.reindex(index=order): the rows of order, a row the pivot has not
\* holds NaN in every cell.
ReindexIndex(pivot, columns, order) ==
    [i \in 1..Len(order) |->
        [Merkmal |-> order[i],
         values |-> IF order[i] \in DOMAIN pivot THEN pivot[order[i]]
                    ELSE [k \in columns |-> NaN]]]

\* pivot.reindex(columns=order): the columns of order, a column the pivot has
\* not holds NaN in every cell.
ReindexColumns(rows, order) ==
    [i \in 1..Len(rows) |->
        [rows[i] EXCEPT !.values =
            [k \in {order[j] : j \in 1..Len(order)} |->
                IF k \in DOMAIN rows[i].values THEN rows[i].values[k] ELSE NaN]]]

\* The matrix of one metric that is plotted: pivoted, the missing cells filled
\* with 0, then reindexed to label_order, and for A202 to a202_order.
PivotTable(records, metric, s) ==
    LET df_met  == WithMetric(records, metric)
        columns == {df_met[i].Kategorie : i \in 1..Len(df_met)}
        rows    == ReindexIndex(Pivot(df_met, metric), columns, label_order)
    IN  IF s = Var("A202", 0) THEN ReindexColumns(rows, a202_order) ELSE rows

\* segment_analysis.py loads the table and keeps a copy of the users.
SegmentLoad ==
    /\ pc = At("segment_load", 0)
    /\ users' = Subset(1)
    /\ pc' = At("segment_prepare", 1)
    /\ UNCHANGED <<df, seg, variables, value_map, out, recs, args, ret>>

\* The head of the loop over segments: the segment column as strings, and its
\* label column; df[seg] of a variable without column raises KeyError.
SegmentPrepare ==
    /\ pc.fn = "segment_prepare"
    /\ seg' = segments[pc.i]
    /\ IF HasColumn(seg')
       THEN /\ users' = [i \in 1..Len(users) |-> WithSegmentLabel(users[i], seg')]
            /\ df' = AssignedThrough(df, users')
            /\ recs' = <<>>
            /\ pc' = IF users = <<>> THEN At("segment_write", 0) ELSE At("segment_category", 1)
       ELSE /\ pc' = At("raised", 0)
            /\ UNCHANGED <<df, users, recs>>
    /\ UNCHANGED <<variables, value_map, out, args, ret>>

\* One iteration of the loop over the segment's sorted categories; sub[v] of a
\* variable without column raises KeyError.
SegmentCategory ==
    /\ pc.fn = "segment_category"
    /\ LET cats == Categories(seg)
       IN  IF /\ \A j \in 1..Len(a301_vars) : HasColumn(a301_vars[j])
              /\ \A j \in 1..Len(a305_vars) : HasColumn(a305_vars[j])
           THEN /\ recs' = recs \o CategoryRecords(seg, cats[pc.i])
                /\ pc' = IF pc.i < Len(cats) THEN At("segment_category", pc.i + 1)
                         ELSE At("segment_write", 0)
           ELSE /\ recs' = recs
                /\ pc' = At("raised", 0)
    /\ UNCHANGED <<df, users, seg, variables, value_map, out, args, ret>>

\* res_df with the feature labels shortened, written to segment_<seg>.csv; a
\* frame of no records has no column 'Merkmal' and the lookup raises KeyError.
SegmentWrite ==
    /\ pc = At("segment_write", 0)
    /\ IF recs = <<>>
       THEN /\ pc' = At("raised", 0)
            /\ UNCHANGED <<out, recs>>
       ELSE /\ recs' = [i \in 1..Len(recs) |-> [recs[i] EXCEPT !.Merkmal = Shorten(@)]]
            /\ out' = Write(File("segment", 0, seg.p \o ".csv"), recs')
            /\ pc' = At("segment_plot", 1)
    /\ UNCHANGED <<df, users, seg, variables, value_map, args, ret>>

\* One iteration of the loop over the metrics: the matrix of the metric, and
\* its bar chart saved as <seg>_<metric>.pdf; after the last metric the loop
\* over segments goes on.
SegmentPlot ==
    /\ pc.fn = "segment_plot"
    /\ LET metric == metrics[pc.i]
       IN  IF HasDuplicates(WithMetric(recs, metric))
           THEN /\ out' = out
                /\ pc' = At("raised", 0)
           ELSE /\ out' = Write(File(seg.p, 0, metric \o ".pdf"), PivotTable(recs, metric, seg))
                /\ pc' = IF pc.i < Len(metrics) THEN At("segment_plot", pc.i + 1)
                         ELSE IF IndexOf(segments, seg) < Len(segments)
                         THEN At("segment_prepare", IndexOf(segments, seg) + 1)
                         ELSE At("segment_done", 0)
    /\ UNCHANGED <<df, users, seg, variables, value_map, recs, args, ret>>

RECURSIVE Gcd(_, _)
Gcd(a, b) == IF b = 0 THEN a ELSE Gcd(b, a % b)

\* n / d (n >= 0, d > 0) in lowest terms.
Frac(n, d) == [num |-> n \div Gcd(n, d), den |-> d \div Gcd(n, d)]

\* Haeufigkeit / users_count * 100 of one cell: the exact ratio; a division by
\* zero of a pandas column gives inf, or NaN for 0 / 0.
PerUser(h, users_count) ==
    IF ~IsNumber(h) THEN NaN
    ELSE IF users_count = 0 THEN (IF h.v = 0 THEN NaN ELSE Inf)
    ELSE [t |-> "ratio"] @@ Frac(100 * h.v, users_count * Pow10(IF h.t = "float" THEN h.d ELSE 0))

\* The table of figures/descriptives/<prefix>_group.csv as the comparison
\* takes it: Merkmal = Option.apply(normalize_label), and the count per user.
PerUserTable(tab, col, users_count) ==
    [i \in 1..Len(tab) |->
        [Merkmal |-> normalize_label(tab[i].Option)]
        @@ (col :> PerUser(tab[i].Haeufigkeit, users_count))]

RECURSIVE Flatten(_)
Flatten(ss) == IF ss = <<>> THEN <<>> ELSE Head(ss) \o Flatten(Tail(ss))

\* left.merge(right, on='Merkmal', how='inner'): for each row of left, in
\* order, a row with each row of right of the same Merkmal.
MergeInner(left, right) ==
    Flatten([i \in 1..Len(left) |->
                LET hits == SelectSeq(right, LAMBDA r : r.Merkmal = left[i].Merkmal)
                IN  [j \in 1..Len(hits) |-> hits[j] @@ left[i]]])

\* Lines 88 to 107 over the files of figures/descriptives: read_csv of a file
\* that is not there raises FileNotFoundError.
MergeResult(files, a301) ==
    IF \E prefix \in {"A302", "A305"} : File(prefix, 0, "group.csv") \notin DOMAIN files
    THEN [raised |-> "FileNotFoundError", table |-> <<>>]
    ELSE LET n == Len(Subset(1))
             df_a302 == PerUserTable(files[File("A302", 0, "group.csv")], "Frage5", n)
             df_a305 == PerUserTable(files[File("A305", 0, "group.csv")], "Frage6", n)
         IN  [raised |-> "", table |-> MergeInner(MergeInner(a301, df_a302), df_a305)]

\* The rest of main: the two tables of the descriptive run are read and merged
\* with the A301 shares; an empty merge is reported and main returns, otherwise
\* the comparison is written.
CompareMerge ==
    /\ pc = At("comparison_merge", 0)
    /\ LET res == MergeResult(out, recs)
       IN  IF res.raised # ""
           THEN /\ pc' = At("raised", 0)
                /\ UNCHANGED <<out, recs>>
           ELSE /\ recs' = res.table
                /\ IF res.table = <<>>
                   THEN /\ pc' = At("comparison_empty", 0)
                        /\ out' = out
                   ELSE /\ pc' = At("comparison_plot", 0)
                        /\ out' = Write(File("comparison", 0, "A301_302_305.csv"), res.table)
    /\ UNCHANGED <<df, users, seg, variables, value_map, args, ret>>

\* The codebooks of the feature tables: with both ratings, and with the first
\* rating only (the table then has no column A301_02).
CodebookFeatures ==
    << VarRow(Var("A101", 0), Txt("Nutzung"), "NOMINAL"),
       VarRow(Var("A601", 0), Txt("Geschlecht"), "NOMINAL"),
       VarRow(Var("A202", 0), Txt("Nutzungshaeufigkeit"), "ORDINAL"),
       VarRow(Var("A301", 1), Prefixed("A301", long_label_1), "ORDINAL"),
       VarRow(Var("A301", 2), Txt("Preis"), "ORDINAL"),
       VarRow(Var("A305", 1), Prefixed("A305", long_label_1), "DICHOTOMOUS"),
       VarRow(Var("A305", 2), Prefixed("A305", long_label_2), "DICHOTOMOUS") >>

CodebookOneFeature ==
    SelectSeq(CodebookFeatures, LAMBDA r : r.VAR # Var("A301", 2))

\* The cells a column of a feature table can hold.
FeatureCells ==
    [var \in Columns(CodebookFeatures) |->
    IF var = Var("A601", 0) THEN {IntVal(1), NaN}
    ELSE IF var = Var("A301", 1) THEN {NaN, IntVal(1), IntVal(2), IntVal(3)}
    ELSE IF var = Var("A301", 2) THEN {IntVal(2), StrVal("k.A.")}
    ELSE IF var = Var("A202", 0) THEN {IntVal(1)}
    ELSE IF var = Var("A305", 1) THEN {IntVal(1)}
    ELSE {IntVal(2)}]

\* The rows of a feature table: a user or a non-user, each answered cell from
\* the cells of its column.
FeatureRows(columns, cells) ==
    UNION {{[A101 |-> a, c |-> c] :
              c \in {f \in [columns -> UNION {cells[v] : v \in columns} \cup {NaN}] :
                        \A v \in columns :
                            f[v] \in (IF Answered(v, a) THEN cells[v] ELSE {NaN})}} :
           a \in {IntVal(1), IntVal(2)}}

InitTop2 ==
    /\ variables \in {CodebookFeatures, CodebookOneFeature}
    /\ value_map \in {<<>>, BuildValueMap(<<ValueRow(Var("A601", 0), 1, Txt("Weiblich"))>>)}
    /\ \E n \in 0..MaxRowsTop2 :
         \E raw \in [1..n -> FeatureRows(Columns(variables), FeatureCells)] : df = Load(raw)
    /\ pc \in {At("comparison_top2", 1), At("segment_load", 0)}
    /\ out = <<>>
    /\ recs = <<>>
    /\ args = <<>>
    /\ ret = <<>>
    /\ users = <<>>
    /\ seg = NoSeg

NextTop2 == CompareTop2 \/ CompareShorten \/ CompareMerge \/ SegmentLoad \/ SegmentPrepare
            \/ SegmentCategory \/ SegmentWrite \/ SegmentPlot

\* The comparison analysis or the segment analysis over a feature table.
SpecTop2 == InitTop2 /\ [][NextTop2]_vars

\* The codebook of the survey's feature questions, and the meanings of the
\* segment responses.
CodebookSegment ==
    << VarRow(Var("A101", 0), Txt("Nutzung"), "NOMINAL"),
       VarRow(Var("A601", 0), Txt("Geschlecht"), "NOMINAL"),
       VarRow(Var("A202", 0), Txt("Nutzungshaeufigkeit"), "ORDINAL"),
       VarRow(Var("A301", 1), Prefixed("A301", long_label_1), "ORDINAL"),
       VarRow(Var("A301", 2), Prefixed("A301", long_label_2), "ORDINAL"),
       VarRow(Var("A305", 1), Prefixed("A305", long_label_1), "DICHOTOMOUS"),
       VarRow(Var("A305", 2), Prefixed("A305", long_label_2), "DICHOTOMOUS") >>

ValuesUsage ==
    << ValueRow(Var("A202", 0), 1, a202_order[1]), ValueRow(Var("A202", 0), 2, a202_order[2]) >>

ValuesGender ==
    << ValueRow(Var("A601", 0), 1, Txt("Weiblich")), ValueRow(Var("A601", 0), 2, Txt("Maennlich")) >>

\* The largest number of respondent rows of a table of the segment analysis.
MaxRowsSegment == 2

\* The cells a column of a table of the segment analysis can hold.
SegmentCells ==
    [var \in Columns(CodebookSegment) |->
    IF var = Var("A601", 0) THEN {IntVal(1), IntVal(2)}
    ELSE IF var = Var("A202", 0) THEN {IntVal(1), IntVal(2), NaN}
    ELSE IF var = Var("A301", 1) THEN {NaN, IntVal(1), IntVal(3)}
    ELSE IF var = Var("A305", 1) THEN {IntVal(1), IntVal(2)}
    ELSE {IntVal(2)}]

InitSegment ==
    /\ variables = CodebookSegment
    /\ value_map \in {BuildValueMap(ValuesUsage), BuildValueMap(ValuesUsage \o ValuesGender)}
    /\ \E n \in 0..MaxRowsSegment :
         \E raw \in [1..n -> FeatureRows(Columns(variables), SegmentCells)] : df = Load(raw)
    /\ pc = At("segment_load", 0)
    /\ out = <<>>
    /\ recs = <<>>
    /\ args = <<>>
    /\ ret = <<>>
    /\ users = <<>>
    /\ seg = NoSeg

NextSegment == SegmentLoad \/ SegmentPrepare \/ SegmentCategory \/ SegmentWrite \/ SegmentPlot

\* The segment analysis over a table of the survey's codebook.
SpecSegment == InitSegment /\ [][NextSegment]_vars

(***************************************************************************)
(* Properties of the top-2-box share                                       *)
(***************************************************************************)
\* The rows of sub with a number in column var, and those with a 1 or a 2.
NonMissing(sub, var) == {i \in 1..Len(sub) : IsNumber(Cell(sub[i], var))}

InTop2(sub, var) ==
    {i \in NonMissing(sub, var) : NumEq(Cell(sub[i], var), 1) \/ NumEq(Cell(sub[i], var), 2)}

\* x is 100 * |InTop2| / |NonMissing| to the two digits it is recorded with,
\* between 0 and 100, and 0 when no row has a number.
IsTop2Share(x, sub, var) ==
    LET n == Cardinality(NonMissing(sub, var))
        k == Cardinality(InTop2(sub, var))
    IN  IF n = 0 THEN IsZero(x)
        ELSE /\ x.t = "float" /\ x.d = 2
             /\ 0 <= x.v /\ x.v <= 10000
             /\ 2 * Abs(x.v * n - 10000 * k) <= n

\* The A301 variable the j-th record stands for: the comparison analysis has
\* one record per rating with a column, the segment analysis a block of one
\* record per rating and per A305 option for each category.
RatingOf(t, j) ==
    IF "Kategorie" \in DOMAIN t[j]
    THEN a301_vars[((j - 1) % (Len(a301_vars) + Len(a305_vars))) + 1]
    ELSE SelectSeq(a301_vars, HasColumn)[j]

RespondentsOf(t, j, s) ==
    IF "Kategorie" \in DOMAIN t[j] THEN SubOf(s, t[j].Kategorie)
    ELSE Subset(1)

\* The segment whose records the file segment_<seg>.csv holds.
SegmentOf(f) ==
    IF \E i \in 1..Len(segments) : f.kind = segments[i].p \o ".csv"
    THEN segments[CHOOSE i \in 1..Len(segments) : f.kind = segments[i].p \o ".csv"]
    ELSE NoSeg

AllTop2Shares(t, s) ==
    \A j \in 1..Len(t) :
        "Top2_Wichtigkeit" \in DOMAIN t[j] =>
            IsTop2Share(t[j].Top2_Wichtigkeit, RespondentsOf(t, j, s), RatingOf(t, j))

\* C1: every top-2-box percentage the comparison analysis (over the users) and
\* the segment analysis (over each category's users) record or write for a
\* rating A301_nn is count(values in {1, 2}) / count(non-missing numeric
\* values) * 100 (to the two digits it is recorded with), lies in [0, 100],
\* and is 0 when the subset has no non-missing numeric value of the rating.
C1_Top2BoxShare ==
    /\ AllTop2Shares(recs, seg)
    /\ \A f \in DOMAIN out : AllTop2Shares(out[f], SegmentOf(f))

\* The segment analysis has written a table that holds a share of one third
\* (of three users of one category) and a share of a subset without numbers.
C1_Witness ==
    /\ pc.fn = "segment_plot"
    /\ \E f \in DOMAIN out : \E i, j \in 1..Len(out[f]) :
          /\ "Top2_Wichtigkeit" \in DOMAIN out[f][i] /\ out[f][i].Top2_Wichtigkeit = FltVal(3333, 2)
          /\ "Top2_Wichtigkeit" \in DOMAIN out[f][j] /\ out[f][j].Top2_Wichtigkeit = IntVal(0)
          /\ NonMissing(RespondentsOf(out[f], i, SegmentOf(f)), RatingOf(out[f], i)) # {}
          /\ NonMissing(RespondentsOf(out[f], j, SegmentOf(f)), RatingOf(out[f], j)) = {}

(***************************************************************************)
(* stat_tests.py: the statistics.  Numbers that are not decimals are kept  *)
(* exact: a fraction in lowest terms, or the square root of one.           *)
(***************************************************************************)
\* np.sqrt(q) of a fraction q.
Root(q) == [t |-> "sqrt", num |-> q.num, den |-> q.den]

\* An exception leaves the call.
Raised(e) == [t |-> "raise", e |-> e]

Min(a, b) == IF a < b THEN a ELSE b

\* The largest k in lo..hi with k * k * den <= scale * num.
RECURSIVE FloorRoot(_, _, _, _, _)
FloorRoot(num, den, scale, lo, hi) ==
    IF lo = hi THEN lo
    ELSE LET mid == (lo + hi + 1) \div 2
         IN  IF mid * mid * den <= scale * num
             THEN FloorRoot(num, den, scale, mid, hi)
             ELSE FloorRoot(num, den, scale, lo, mid - 1)

\* round(r, 3) of a root r <= 1: the thousandths, half to even.
RoundRoot3(r) ==
    LET X    == 1000000 * r.num
        k    == FloorRoot(r.num, r.den, 1000000, 0, 1000)
        half == (k * k + k) * r.den
        up   == half + ((r.den + 3) \div 4) <= X
        tie  == r.den % 4 = 0 /\ half + (r.den \div 4) = X
    IN  FltVal(IF tie THEN (IF k % 2 = 0 THEN k ELSE k + 1)
               ELSE IF up THEN k + 1 ELSE k, 3)

\* confusion_matrix.sum(axis): the sums of the rows, and of the columns.
RowSums(tab) == [i \in 1..Len(tab) |-> SumSeq(tab[i])]
ColSums(tab) == [j \in 1..Len(tab[1]) |-> SumSeq([i \in 1..Len(tab) |-> tab[i][j]])]

RECURSIVE Product(_)
Product(s) == IF s = <<>> THEN 1 ELSE Head(s) * Product(Tail(s))

\* chi2 / n for the uncorrected statistic chi2 = sum (O - E)^2 / E with
\* E = row sum * column sum / n, which is sum O^2 / (row sum * column sum) - 1;
\* over the common denominator D, the product of all the sums.
Phi2(tab) ==
    LET R == RowSums(tab)
        C == ColSums(tab)
        D == Product(R) * Product(C)
        S == SumSeq([i \in 1..Len(tab) |->
                        SumSeq([j \in 1..Len(tab[1]) |->
                                   tab[i][j] * tab[i][j] * (D \div (R[i] * C[j]))])])
    IN  Frac(S - D, D)

\* cramers_v without the division of chi2 by n.
cramers_v_unscaled(confusion_matrix) ==
    LET r == Len(confusion_matrix)
        k == Len(confusion_matrix[1])
        q == Phi2(confusion_matrix)
        n == SumSeq(RowSums(confusion_matrix))
    IN  IF \E i \in 1..r : RowSums(confusion_matrix)[i] = 0 THEN Raised("ValueError")
        ELSE IF \E j \in 1..k : ColSums(confusion_matrix)[j] = 0 THEN Raised("ValueError")
        ELSE IF Min(k - 1, r - 1) = 0 THEN NaN
        ELSE Root(Frac(n * q.num, q.den * Min(k - 1, r - 1)))

\* cramers_v: chi2_contingency raises ValueError when an expected frequency is
\* zero (a row or a column without a count); a table of one row or one column
\* has chi2 = 0 and divides 0.0 by 0, which is NaN.
cramers_v(confusion_matrix) ==
    LET r == Len(confusion_matrix)
        k == Len(confusion_matrix[1])
        q == Phi2(confusion_matrix)
    IN  IF \E i \in 1..r : RowSums(confusion_matrix)[i] = 0 THEN Raised("ValueError")
        ELSE IF \E j \in 1..k : ColSums(confusion_matrix)[j] = 0 THEN Raised("ValueError")
        ELSE IF Min(k - 1, r - 1) = 0 THEN NaN
        ELSE Root(Frac(q.num, q.den * Min(k - 1, r - 1)))

\* Twice the U statistic of x against y (whole, so that a tie counts 1):
\* scipy's U1 = R1 - n1 (n1 + 1) / 2 with average ranks.
TwiceU(x, y) ==
    SumSeq([i \in 1..Len(x) |->
               SumSeq([j \in 1..Len(y) |->
                          IF x[i] > y[j] THEN 2 ELSE IF x[i] = y[j] THEN 1 ELSE 0])])

\* The sum of t^3 - t over the groups of equal values of the pooled sample.
TieTerm(x, y) ==
    LET pooled == x \o y
        t(v)   == Cardinality({i \in 1..Len(pooled) : pooled[i] = v})
        vals   == [i \in 1..Len(pooled) |->
                      IF \E j \in 1..(i - 1) : pooled[j] = pooled[i] THEN 0
                      ELSE t(pooled[i]) * t(pooled[i]) * t(pooled[i]) - t(pooled[i])]
    IN  SumSeq(vals)

\* The number of ways to pick n1 of the ranks 1..n whose U is at least u, and
\* the number of all ways: the null distribution of U without ties.
WaysAtLeast(n1, n, u) ==
    Cardinality({S \in SUBSET (1..n) :
                    /\ Cardinality(S) = n1
                    /\ SumSeq([r \in 1..n |-> IF r \in S THEN r ELSE 0])
                          - (n1 * (n1 + 1)) \div 2 >= u})

\* p of mannwhitneyu(x, y, alternative='two-sided') with the defaults
\* use_continuity=True, method='auto': the exact distribution when a sample
\* has at most 8 values and no two values are equal, the normal approximation
\* otherwise.  The exact p is a fraction; the approximate p is 1 when it is
\* clipped and 2 * norm.sf(z) otherwise, kept as z squared.  PValueOneSided
\* is the exact p without the factor 2 of the two-sided alternative.
PValueOneSided(n1, n2, twiceU) ==
    Frac(WaysAtLeast(n1, n1 + n2, twiceU \div 2), WaysAtLeast(n1, n1 + n2, 0))

PValueExact(n1, n2, twiceU) ==
    LET u     == twiceU \div 2
        ways  == WaysAtLeast(n1, n1 + n2, u)
        total == WaysAtLeast(n1, n1 + n2, 0)
    IN  IF 2 * ways >= total THEN Frac(1, 1) ELSE Frac(2 * ways, total)

PValueAsymptotic(n1, n2, twiceU, ties) ==
    LET n    == n1 + n2
        top  == twiceU - n1 * n2 - 1
        var  == n1 * n2 * ((n + 1) * n * (n - 1) - ties)
    IN  IF top <= 0 THEN Frac(1, 1)
        ELSE [t |-> "2sf", z2 |-> Frac(3 * n * (n - 1) * top * top, var)]

\* scipy.stats.mannwhitneyu: the statistic is U of x; p is taken at the larger
\* of U and n1 n2 - U.
mannwhitneyu(x, y) ==
    LET n1   == Len(x)
        n2   == Len(y)
        u2   == TwiceU(x, y)
        big  == IF u2 >= 2 * n1 * n2 - u2 THEN u2 ELSE 2 * n1 * n2 - u2
        ties == TieTerm(x, y)
    IN  [statistic |-> u2,
         pvalue |-> IF (n1 > 8 /\ n2 > 8) \/ ties > 0
                    THEN PValueAsymptotic(n1, n2, big, ties)
                    ELSE PValueExact(n1, n2, big)]

\* round(p, 3)
RoundP(p) ==
    IF "num" \in DOMAIN p THEN FltVal(RoundHalfEven(1000 * p.num, p.den), 3) ELSE p

\* The effect size of the Mann-Whitney branch: z = (u - n1 n2 / 2) / sqrt(n1 n2
\* (n1 + n2 + 1) / 12) and r = abs(z) / sqrt(n1 + n2), so that r squared is
\* 3 (2u - n1 n2)^2 / (n1 n2 (n1 + n2 + 1) (n1 + n2)).
Effect_r(n1, n2, twiceU) ==
    Root(Frac(3 * (twiceU - n1 * n2) * (twiceU - n1 * n2),
              n1 * n2 * (n1 + n2 + 1) * (n1 + n2)))

\* The numbers of a Mann-Whitney-U result row.
MannWhitneyRow(x, y) ==
    LET res == mannwhitneyu(x, y)
    IN  [Test |-> "Mann-Whitney-U",
         Stat |-> FltVal(res.statistic * 50, 2),
         p_value |-> RoundP(res.pvalue),
         Effect_r |-> RoundRoot3(Effect_r(Len(x), Len(y), res.statistic))]

(***************************************************************************)
(* stat_tests.py: main.  A result row of the model holds the test and the  *)
(* numbers above; the chi-square and Kruskal-Wallis p-values and the       *)
(* Kruskal-Wallis statistic are not part of it.                            *)
(***************************************************************************)
\* The largest number of respondent rows of a table the tests run over.
MaxRowsTests == 3

\* users[seg] = users[seg].astype(str): the segment column holds strings, a
\* missing value the string 'nan'.
CoerceSegment(table, s) ==
    [i \in 1..Len(table) |-> [table[i] EXCEPT !.c[s] = StrVal(AsStr(@))]]

\* s.dropna().unique(): the values that are not NaN, in the order of their
\* first appearance.
DropnaUnique(s) ==
    LET kept == SelectSeq(s, LAMBDA x : x # NaN)
        first == {i \in 1..Len(kept) : \A j \in 1..(i - 1) : kept[j] # kept[i]}
        nth[k \in 1..Cardinality(first)] ==
            CHOOSE i \in first : Cardinality({j \in first : j < i}) = k - 1
    IN  [k \in 1..Cardinality(first) |-> kept[nth[k]]]

\* cats = users[seg].dropna().unique()
Cats(s) == DropnaUnique([i \in 1..Len(users) |-> users[i].c[s]])

\* The numbers of a sequence of numeric cells.
Numbers(vals) == [i \in 1..Len(vals) |-> vals[i].v]

\* data_by_cat: pd.to_numeric(users[users[seg] == c][var], errors='coerce')
\* .dropna() for c in cats
DataByCat(s, var) ==
    [k \in 1..Len(Cats(s)) |->
        Numbers(NumericVals(SelectSeq(users, LAMBDA row : row.c[s] = Cats(s)[k]), var))]

\* valid = [d for d in data_by_cat if len(d) > 0]
Valid(s, var) == SelectSeq(DataByCat(s, var), LAMBDA d : Len(d) > 0)

\* The rows one rating adds for a segment: none with fewer than two groups of
\* values, Mann-Whitney-U of the first two groups when the segment has two
\* categories, Kruskal-Wallis of all the groups otherwise.
RankRows(s, var) ==
    LET valid == Valid(s, var)
    IN  IF Len(valid) < 2 THEN <<>>
        ELSE IF Len(Cats(s)) = 2
        THEN << [Segment |-> s, Variable |-> var] @@ MannWhitneyRow(valid[1], valid[2]) >>
        ELSE << [Segment |-> s, Variable |-> var, Test |-> "Kruskal-Wallis"] >>

\* pd.crosstab(users[seg], pd.to_numeric(users[var], errors='coerce') == 2): a
\* row per segment string, a column for False and for True when it occurs
\* (pandas sorts the rows; their order does not change the statistic).
Crosstab(s, var) ==
    LET flags == [i \in 1..Len(users) |-> NumEq(to_numeric(Cell(users[i], var)), 2)]
        rows  == Cats(s)
        cols  == SelectSeq(<<FALSE, TRUE>>, LAMBDA b : \E i \in 1..Len(users) : flags[i] = b)
    IN  [r \in 1..Len(rows) |->
            [c \in 1..Len(cols) |->
                Cardinality({i \in 1..Len(users) :
                                users[i].c[s] = rows[r] /\ flags[i] = cols[c]})]]

\* The rows one A305 option adds for a segment: the chi-square test of the
\* crosstab when it has two rows and two columns at least.
Chi2Rows(s, var) ==
    LET tab == Crosstab(s, var)
    IN  IF Len(tab) < 2 \/ Len(tab[1]) < 2 THEN <<>>
        ELSE << [Segment |-> s, Variable |-> var, Test |-> "Chi-Quadrat",
                 Stat |-> FltVal(RoundHalfEven(100 * SumSeq(RowSums(tab)) * Phi2(tab).num,
                                               Phi2(tab).den), 2),
                 CramersV |-> RoundRoot3(cramers_v(tab))] >>

\* stat_tests.py loads the table and selects the users.
TestsLoad ==
    /\ pc = At("tests_load", 0)
    /\ users' = Subset(1)
    /\ pc' = At("tests_segment", 1)
    /\ UNCHANGED <<df, seg, variables, value_map, out, recs, args, ret>>

\* The head of the loop over segments: the segment column of users as strings;
\* users[seg] of a variable without column raises KeyError.
TestsSegment ==
    /\ pc.fn = "tests_segment"
    /\ seg' = segments[pc.i]
    /\ IF HasColumn(seg')
       THEN /\ users' = CoerceSegment(users, seg')
            /\ df' = AssignedThrough(df, users')
            /\ pc' = At("tests_rank", 1)
       ELSE /\ pc' = At("raised", 0)
            /\ UNCHANGED <<df, users>>
    /\ UNCHANGED <<variables, value_map, out, recs, args, ret>>

\* One iteration of the loop over a301_vars; users[...][var] of a variable
\* without column raises KeyError.
TestRank ==
    /\ pc.fn = "tests_rank"
    /\ IF HasColumn(a301_vars[pc.i])
       THEN /\ recs' = recs \o RankRows(seg, a301_vars[pc.i])
            /\ pc' = IF pc.i < Len(a301_vars) THEN At("tests_rank", pc.i + 1)
                     ELSE At("tests_chi2", 1)
       ELSE /\ recs' = recs
            /\ pc' = At("raised", 0)
    /\ UNCHANGED <<df, users, seg, variables, value_map, out, args, ret>>

\* One iteration of the loop over a305_vars; after the last the loop over
\* segments goes on.
TestChi2 ==
    /\ pc.fn = "tests_chi2"
    /\ recs' = recs \o Chi2Rows(seg, a305_vars[pc.i])
    /\ pc' = IF pc.i < Len(a305_vars) THEN At("tests_chi2", pc.i + 1)
             ELSE IF IndexOf(segments, seg) < Len(segments)
             THEN At("tests_segment", IndexOf(segments, seg) + 1)
             ELSE At("tests_save", 0)
    /\ UNCHANGED <<df, users, seg, variables, value_map, out, args, ret>>

\* The results are written; the plots then merge the effect sizes with
\* df_plot.get('Effect_r').fillna(df_plot.get('Effect_eta2')).fillna(
\* df_plot.get('CramersV')), and get returns None for a column no row has:
\* None.fillna raises AttributeError, fillna(None) raises ValueError.
TestsSave ==
    /\ pc = At("tests_save", 0)
    /\ out' = Write(File("stat_tests_results", 0, "csv"), recs)
    /\ pc' = IF \A col \in {"Effect_r", "Effect_eta2", "CramersV"} :
                   \E i \in 1..Len(recs) :
                      col \in DOMAIN recs[i]
                      \/ (col = "Effect_eta2" /\ recs[i].Test = "Kruskal-Wallis")
             THEN At("tests_plot", 0)
             ELSE At("raised", 0)
    /\ UNCHANGED <<df, users, seg, variables, value_map, recs, args, ret>>

\* The cells a column of a table of the tests can hold.
TestCells ==
    [var \in Columns(CodebookFeatures) |->
    IF var = Var("A601", 0) THEN {IntVal(1), IntVal(2), IntVal(3), NaN}
    ELSE IF var = Var("A301", 1) THEN {NaN, IntVal(1), IntVal(3)}
    ELSE IF var = Var("A301", 2) THEN {IntVal(2)}
    ELSE IF var = Var("A202", 0) THEN {IntVal(1)}
    ELSE IF var = Var("A305", 2) THEN {IntVal(2)}
    ELSE {IntVal(1), IntVal(2)}]

InitTests ==
    /\ variables \in {CodebookFeatures, CodebookOneFeature}
    /\ value_map = <<>>
    /\ \E n \in 0..MaxRowsTests :
         \E raw \in [1..n -> FeatureRows(Columns(variables), TestCells)] : df = Load(raw)
    /\ pc = At("tests_load", 0)
    /\ out = <<>>
    /\ recs = <<>>
    /\ args = <<>>
    /\ ret = <<>>
    /\ users = <<>>
    /\ seg = NoSeg

NextTests == TestsLoad \/ TestsSegment \/ TestRank \/ TestChi2 \/ TestsSave

\* The significance tests over a feature table.
SpecTests == InitTests /\ [][NextTests]_vars

(***************************************************************************)
(* Properties of the significance tests                                    *)
(***************************************************************************)
\* The users, and the segment values that are not missing among them.
TestUsers == Subset(1)

SegmentValues(s) ==
    {TestUsers[i].c[s] : i \in 1..Len(TestUsers)} \ {NaN}

\* The segment categories with at least one number of the rating.
CatsWithData(s, var) ==
    {c \in SegmentValues(s) :
        \E i \in 1..Len(TestUsers) :
            TestUsers[i].c[s] = c /\ IsNumber(Cell(TestUsers[i], var))}

\* The result rows of a segment, and those of one of its variables.
SegmentRows(s) == SelectSeq(recs, LAMBDA row : row.Segment = s)

RowsOf(s, var) == SelectSeq(SegmentRows(s), LAMBDA row : row.Variable = var)

\* The ratings the loop is through with for the segment s.
RatingsDone(s) ==
    IF seg = NoSeg \/ IndexOf(segments, s) > IndexOf(segments, seg) THEN {}
    ELSE IF IndexOf(segments, s) < IndexOf(segments, seg)
    THEN {a301_vars[i] : i \in 1..Len(a301_vars)}
    ELSE {a301_vars[i] : i \in {j \in 1..Len(a301_vars) :
                              pc.fn \in {"tests_chi2", "tests_segment", "tests_save", "tests_plot"}
                              \/ (pc.fn = "tests_rank" /\ j < pc.i)}}

\* C7: among users who all have a segment value, a rating with exactly two
\* segment categories with data has one Mann-Whitney-U row, one with more
\* than two has one Kruskal-Wallis row, one with fewer than two has no row.
C7_TestByCategoriesWithData ==
    \A k \in 1..Len(segments) :
        LET s == segments[k]
        IN  (\A i \in 1..Len(TestUsers) : TestUsers[i].c[s] # NaN) =>
                \A var \in RatingsDone(s) :
                    LET n == Cardinality(CatsWithData(s, var))
                        rows == RowsOf(s, var)
                    IN  /\ n < 2 => rows = <<>>
                        /\ n = 2 => Len(rows) = 1 /\ rows[1].Test = "Mann-Whitney-U"
                        /\ n > 2 => Len(rows) = 1 /\ rows[1].Test = "Kruskal-Wallis"

\* C8: when the users have one segment value (the other users, if any, have
\* none), the loops over the ratings and over the A305 options add no result
\* row for the segment.
C8_OneCategoryNoRows ==
    \A k \in 1..Len(segments) :
        Cardinality(SegmentValues(segments[k])) = 1 => SegmentRows(segments[k]) = <<>>

(***************************************************************************)
(* The statistics called on their own                                      *)
(***************************************************************************)
\* The largest count of a cell of a contingency table, the largest number of
\* values of a group and the largest value of a group.
MaxCount == 2
MaxGroup == 3
MaxValue == 6

\* The contingency tables of two or three rows and columns, and the two
\* tables of a hundred observations.
Tables ==
    UNION {[1..r -> [1..c -> 0..MaxCount]] : r \in 2..3, c \in 2..3}
    \cup { << <<50, 0>>, <<0, 50>> >>, << <<25, 25>>, <<25, 25>> >> }

\* The groups of one to MaxGroup values.
Groups == UNION {[1..n -> 1..MaxValue] : n \in 1..MaxGroup}

InitCramersV ==
    /\ args \in {<<tab>> : tab \in Tables}
    /\ ret = <<>>
    /\ users = <<>>
    /\ seg = NoSeg
    /\ pc = At("cramers_v", 0)
    /\ df = <<>> /\ variables = <<>> /\ value_map = <<>> /\ out = <<>> /\ recs = <<>>

CallCramersV ==
    /\ pc = At("cramers_v", 0)
    /\ ret' = cramers_v(args[1])
    /\ pc' = At("returned", 0)
    /\ UNCHANGED <<users, seg, df, variables, value_map, out, recs, args>>

SpecCramersV == InitCramersV /\ [][CallCramersV]_vars

InitMannWhitney ==
    /\ args \in Groups \X Groups
    /\ ret = <<>>
    /\ users = <<>>
    /\ seg = NoSeg
    /\ pc = At("mannwhitneyu", 0)
    /\ df = <<>> /\ variables = <<>> /\ value_map = <<>> /\ out = <<>> /\ recs = <<>>

\* The Mann-Whitney branch of main on two groups of values.
CallMannWhitney ==
    /\ pc = At("mannwhitneyu", 0)
    /\ ret' = MannWhitneyRow(args[1], args[2])
    /\ pc' = At("returned", 0)
    /\ UNCHANGED <<users, seg, df, variables, value_map, out, recs, args>>

SpecMannWhitney == InitMannWhitney /\ [][CallMannWhitney]_vars

(***************************************************************************)
(* Properties of the statistics                                            *)
(***************************************************************************)
PerfectTable == << <<50, 0>>, <<0, 50>> >>
IndependentTable == << <<25, 25>>, <<25, 25>> >>

NoEmptyMargin(tab) ==
    /\ \A i \in 1..Len(tab) : \E j \in 1..Len(tab[1]) : tab[i][j] > 0
    /\ \A j \in 1..Len(tab[1]) : \E i \in 1..Len(tab) : tab[i][j] > 0

\* C9: Cramer's V is 1 on the table [[50, 0], [0, 50]], 0 on the table
\* [[25, 25], [25, 25]], and between 0 and 1 on every table of at least two
\* rows and two columns that has no row and no column of zeros only.  (V is
\* the exact root here; the code's doubles carry rounding errors of the last
\* bit.)
C9_CramersVRange ==
    pc = At("returned", 0) /\ Len(args) = 1 =>
        /\ args[1] = PerfectTable => ret = Root(Frac(1, 1))
        /\ args[1] = IndependentTable => ret = Root(Frac(0, 1))
        /\ NoEmptyMargin(args[1]) =>
              ret.t = "sqrt" /\ 0 <= ret.num /\ ret.num <= ret.den

\* cramers_v has returned 1 for the perfectly associated table.
C9_Witness ==
    pc = At("returned", 0) /\ args = <<PerfectTable>> /\ ret = Root(Frac(1, 1))

\* p < 0.05, for a rounded p and for one kept as z squared (z > 1.96).
PBelow05(p) ==
    IF p.t = "float" THEN p.v * 100 < 5 * Pow10(p.d)
    ELSE 10000 * p.z2.num > 38415 * p.z2.den

TheTwoGroups == << <<1, 2, 3>>, <<4, 5, 6>> >>

\* C10 as stated: on the groups [1, 2, 3] and [4, 5, 6] the result row has
\* p < 0.05 and an effect size r within 0.1 of 1.0.
C10_SignificantAndNearOne ==
    pc = At("returned", 0) /\ args = TheTwoGroups =>
        PBelow05(ret.p_value) /\ ret.Effect_r.v >= 900

\* C10: on the groups [1, 2, 3] and [4, 5, 6] the result row has U = 0,
\* p = 0.1 (the exact two-sided p of the most extreme of the 20 splits) and
\* effect size r = 0.802; and no two groups of three distinct-valued samples
\* without ties have p below 0.1 or r above 0.802.
C10_ExactPAndEffect ==
    pc = At("returned", 0) /\ Len(args) = 2 =>
        /\ args = TheTwoGroups =>
              /\ ret.Stat = FltVal(0, 2)
              /\ ret.p_value = FltVal(100, 3)
              /\ ret.Effect_r = FltVal(802, 3)
        /\ Len(args[1]) = 3 /\ Len(args[2]) = 3 /\ TieTerm(args[1], args[2]) = 0 =>
              /\ ret.p_value.t = "float" /\ ret.p_value.v >= 100
              /\ ret.Effect_r.v <= 802

\* The Mann-Whitney branch has returned the row of the two groups.
C10_Witness ==
    pc = At("returned", 0) /\ args = TheTwoGroups /\ ret.p_value = FltVal(100, 3)

(***************************************************************************)
(* The label functions called on their own.  The argument is any Python    *)
(* value: a string is Label(l), l a sequence of text pieces.               *)
(***************************************************************************)
Label(l) == [t |-> "label", l |-> l]

\* isinstance(x, str)
IsStr(x) == x.t = "label"

\* The index of the last ": " in s, 0 when there is none.
FindSepLast(s) ==
    LET hits == {i \in 1..(Len(s) - 1) : s[i] = ":" /\ s[i + 1] = " "}
    IN  IF hits = {} THEN 0 ELSE CHOOSE i \in hits : \A j \in hits : i >= j

\* label.rsplit(': ', 1)[1] in place of label.split(': ', 1)[1]
normalize_label_at_last(opt) ==
    IF IsStr(opt) /\ FindSepLast(opt.l) > 0
    THEN Label(SubSeq(opt.l, FindSepLast(opt.l) + 2, Len(opt.l)))
    ELSE opt

\* descriptive_stats.normalize_label
normalize_label_descriptive(label) ==
    IF IsStr(label) /\ FindSep(label.l) > 0
    THEN Label(normalize_label(label.l))
    ELSE label

\* comparison_analysis.normalize_label
normalize_label_comparison(opt) ==
    IF IsStr(opt) /\ FindSep(opt.l) > 0
    THEN Label(SubSeq(opt.l, FindSep(opt.l) + 2, Len(opt.l)))
    ELSE opt

\* segment_analysis.normalize_label
normalize_label_segment(opt) ==
    IF IsStr(opt) /\ FindSep(opt.l) > 0
    THEN Label(SubSeq(opt.l, FindSep(opt.l) + 2, Len(opt.l)))
    ELSE opt

\* The short_labels of a script that was not kept in step with the others.
short_labels_stale ==
    [l \in DOMAIN short_labels |->
        IF l = Txt("Genauigkeit der Antworten") THEN Txt("Praezision") ELSE short_labels[l]]

\* comparison_analysis.main: short_labels
short_labels_comparison ==
    (Txt("Schnelligkeit der Antworten") :> Txt("Geschwindigkeit")) @@
    (Txt("Genauigkeit der Antworten") :> Txt("Genauigkeit")) @@
    (Txt("Faehigkeit, Probleme effektiv zu loesen") :> Txt("Problemloesung")) @@
    (Txt("Natuerliche, menschliche Interaktion") :> Txt("Menschlichkeit")) @@
    (Txt("Einfache Bedienung (Auswahloptionen)") :> Txt("Bedienbarkeit")) @@
    (Txt("Kontextverstaendnis (Chatverlauf wird genutzt)") :> Txt("Kontext")) @@
    (Txt("Freundlichkeit / Tonalitaet der Antwort") :> Txt("Tonalitaet")) @@
    (Txt("Datenschutz & Vertrauenswuerdigkeit") :> Txt("Datenschutz"))

\* segment_analysis.main: short_labels
short_labels_segment ==
    (Txt("Schnelligkeit der Antworten") :> Txt("Geschwindigkeit")) @@
    (Txt("Genauigkeit der Antworten") :> Txt("Genauigkeit")) @@
    (Txt("Faehigkeit, Probleme effektiv zu loesen") :> Txt("Problemloesung")) @@
    (Txt("Natuerliche, menschliche Interaktion") :> Txt("Menschlichkeit")) @@
    (Txt("Einfache Bedienung (Auswahloptionen)") :> Txt("Bedienbarkeit")) @@
    (Txt("Kontextverstaendnis (Chatverlauf wird genutzt)") :> Txt("Kontext")) @@
    (Txt("Freundlichkeit / Tonalitaet der Antwort") :> Txt("Tonalitaet")) @@
    (Txt("Datenschutz & Vertrauenswuerdigkeit") :> Txt("Datenschutz"))

\* short_labels.get(core, core) of descriptive_stats, and
\* s.map(short_labels).fillna(s) of the comparison and segment analyses, on
\* one value: a key of the table gets its entry, any other value stays.
ShortenDescriptive(x) ==
    IF IsStr(x) /\ x.l \in DOMAIN short_labels THEN Label(short_labels[x.l]) ELSE x

ShortenComparison(x) ==
    IF IsStr(x) /\ x.l \in DOMAIN short_labels_comparison
    THEN Label(short_labels_comparison[x.l]) ELSE x

ShortenSegment(x) ==
    IF IsStr(x) /\ x.l \in DOMAIN short_labels_segment
    THEN Label(short_labels_segment[x.l]) ELSE x

\* The longest label of the label functions' arguments, in pieces.
MaxLabelLen == 4

LabelPieces == {"A302", ":", " ", "Genauigkeit der Antworten"}

\* The arguments: the strings of pieces, the long and the short feature
\* labels, and values that are no strings.
LabelArgs ==
    {Label(l) : l \in UNION {[1..n -> LabelPieces] : n \in 0..MaxLabelLen}}
    \cup {Label(l) : l \in DOMAIN short_labels}
    \cup {Label(short_labels[l]) : l \in DOMAIN short_labels}
    \cup {NaN, IntVal(1), FltVal(25, 1)}

InitLabels ==
    /\ args \in {<<x>> : x \in LabelArgs}
    /\ ret = <<>>
    /\ users = <<>>
    /\ seg = NoSeg
    /\ pc = At("labels", 0)
    /\ df = <<>> /\ variables = <<>> /\ value_map = <<>> /\ out = <<>> /\ recs = <<>>

\* Each copy of normalize_label once and twice, and each script's short-label
\* substitution, on the argument.
CallLabels ==
    /\ pc = At("labels", 0)
    /\ ret' = [descriptive |-> normalize_label_descriptive(args[1]),
               comparison  |-> normalize_label_comparison(args[1]),
               segment     |-> normalize_label_segment(args[1]),
               twice       |-> normalize_label_descriptive(normalize_label_descriptive(args[1])),
               twice_cmp   |-> normalize_label_comparison(normalize_label_comparison(args[1])),
               short_desc  |-> ShortenDescriptive(args[1]),
               short_cmp   |-> ShortenComparison(args[1]),
               short_seg   |-> ShortenSegment(args[1])]
    /\ pc' = At("labels_returned", 0)
    /\ UNCHANGED <<users, seg, df, variables, value_map, out, recs, args>>

SpecLabels == InitLabels /\ [][CallLabels]_vars

(***************************************************************************)
(* Properties of the label functions.                                      *)
(***************************************************************************)
LabelsReturned == pc = At("labels_returned", 0)

\* The text s has the separator ": " at position i.
SepAt(s, i) == i \in 1..(Len(s) - 1) /\ s[i] = ":" /\ s[i + 1] = " "

Separators(s) == {i \in 1..(Len(s) - 1) : SepAt(s, i)}

\* r is what follows the first ": " of s.
AfterFirstSeparator(s, r) ==
    \E i \in Separators(s) :
        /\ \A j \in Separators(s) : i <= j
        /\ r = SubSeq(s, i + 2, Len(s))

\* C17: normalize_label returns, for a string that contains ": ", the
\* substring after the first ": ", and for every other string and every value
\* that is no string the input itself; the copies of the descriptive, the
\* comparison and the segment module return the same result on every input.
C17_NormalizeLabelContract ==
    LabelsReturned =>
        LET x == args[1]
        IN  /\ ret.descriptive = ret.comparison
            /\ ret.comparison = ret.segment
            /\ IF IsStr(x) /\ Separators(x.l) # {}
               THEN IsStr(ret.descriptive) /\ AfterFirstSeparator(x.l, ret.descriptive.l)
               ELSE ret.descriptive = x

\* A label with two separators has been normalized by all three copies.
C17_Witness ==
    /\ LabelsReturned
    /\ IsStr(args[1])
    /\ Cardinality(Separators(args[1].l)) = 2
    /\ ret.segment = Label(SubSeq(args[1].l, 3, Len(args[1].l)))
    /\ ret.segment # args[1]

\* C18 as stated: for every label string x,
\* normalize_label(normalize_label(x)) = normalize_label(x).
C18_Idempotent ==
    (LabelsReturned /\ IsStr(args[1])) =>
        /\ ret.twice = ret.descriptive
        /\ ret.twice_cmp = ret.comparison

\* C18: normalize_label is idempotent on the labels with at most one ": ";
\* on a label with two or more it is not: the second application removes
\* what the first left up to the next ": ".
C18_IdempotentUpToOneSeparator ==
    (LabelsReturned /\ IsStr(args[1])) =>
        LET x == args[1]
        IN  /\ ret.twice_cmp = ret.twice
            /\ IF Cardinality(Separators(x.l)) <= 1
               THEN ret.twice = ret.descriptive
               ELSE /\ ret.twice # ret.descriptive
                    /\ AfterFirstSeparator(ret.descriptive.l, ret.twice.l)

\* A prefixed label with one separator was normalized twice.
C18_Witness ==
    /\ LabelsReturned
    /\ args[1] = Label(<<"A302", ":", " ", "Genauigkeit der Antworten">>)
    /\ ret.descriptive = Label(Txt("Genauigkeit der Antworten"))
    /\ ret.twice = ret.descriptive

\* The eight long feature labels and their short forms.
CanonicalShort ==
    { <<Txt("Schnelligkeit der Antworten"), Txt("Geschwindigkeit")>>,
      <<Txt("Genauigkeit der Antworten"), Txt("Genauigkeit")>>,
      <<Txt("Faehigkeit, Probleme effektiv zu loesen"), Txt("Problemloesung")>>,
      <<Txt("Natuerliche, menschliche Interaktion"), Txt("Menschlichkeit")>>,
      <<Txt("Einfache Bedienung (Auswahloptionen)"), Txt("Bedienbarkeit")>>,
      <<Txt("Kontextverstaendnis (Chatverlauf wird genutzt)"), Txt("Kontext")>>,
      <<Txt("Freundlichkeit / Tonalitaet der Antwort"), Txt("Tonalitaet")>>,
      <<Txt("Datenschutz & Vertrauenswuerdigkeit"), Txt("Datenschutz")>> }

\* C19: the short-label substitution maps each of the eight long feature
\* labels to its short form and returns every other value unchanged, and the
\* tables of the descriptive, the comparison and the segment analysis are one
\* mapping of eight entries, so the three shorten a label alike.
C19_ShortLabelLookup ==
    /\ Cardinality(DOMAIN short_labels) = 8
    /\ short_labels_comparison = short_labels
    /\ short_labels_segment = short_labels
    /\ LabelsReturned =>
        LET x == args[1]
        IN  /\ ret.short_cmp = ret.short_desc
            /\ ret.short_seg = ret.short_desc
            /\ IF IsStr(x) /\ \E e \in CanonicalShort : e[1] = x.l
               THEN \E e \in CanonicalShort : e[1] = x.l /\ ret.short_desc = Label(e[2])
               ELSE ret.short_desc = x

\* A long feature label was shortened by the three analyses.
C19_Witness ==
    /\ LabelsReturned
    /\ args[1] = Label(Txt("Genauigkeit der Antworten"))
    /\ ret.short_seg = Label(Txt("Genauigkeit"))
    /\ ret.short_cmp = Label(Txt("Genauigkeit"))

(***************************************************************************)
(* Properties of the segment analysis' matrices                            *)
(***************************************************************************)
\* The charts written, the metric of a chart, and the long-format table of the
\* chart's segment.
PivotFiles == {f \in DOMAIN out : \E i \in 1..Len(metrics) : f.kind = metrics[i] \o ".pdf"}

MetricOf(f) == metrics[CHOOSE i \in 1..Len(metrics) : f.kind = metrics[i] \o ".pdf"]

LongTableOf(f) == out[File("segment", 0, f.p \o ".csv")]

\* The long-format table has a value of the metric for the feature and the
\* category.
HasValue(long, metric, feature, cat) ==
    \E i \in 1..Len(long) :
        /\ metric \in DOMAIN long[i] /\ long[i][metric] # NaN
        /\ long[i].Merkmal = feature /\ long[i].Kategorie = cat

\* C11: every matrix the segment analysis builds for a metric holds 0 for
\* each (feature, category) of its rows and columns that has no value in the
\* long-format table, and no undefined entry.
C11_PivotZeroNoUndefined ==
    \A f \in PivotFiles :
        \A i \in 1..Len(out[f]) :
            \A cat \in DOMAIN out[f][i].values :
                /\ out[f][i].values[cat] # NaN
                /\ ~HasValue(LongTableOf(f), MetricOf(f), out[f][i].Merkmal, cat)
                      => IsZero(out[f][i].values[cat])

(***************************************************************************)
(* Properties of the order of the categories                               *)
(***************************************************************************)
\* The segment strings of the users of the loaded table (a missing value is
\* 'nan'), and the numbers of a rating among the users of one of them.
SegmentStrings(s) == {AsStr(TestUsers[i].c[s]) : i \in 1..Len(TestUsers)}

RatingsIn(s, c, var) ==
    Numbers(NumericVals(SelectSeq(TestUsers, LAMBDA row : AsStr(row.c[s]) = c), var))

TextLess(a, b) ==
    \E i, j \in 1..Len(Collation) : Collation[i] = a /\ Collation[j] = b /\ i < j

\* C12: the significance tests visit the categories of a segment in
\* lexicographic order, whatever the order of the respondent rows: among users
\* who all have a segment value, the Mann-Whitney-U row of a rating is that of
\* the lexicographically first category's values against the second's.
C12_CategoriesInLexicographicOrder ==
    \A k \in 1..Len(segments) :
        (\A i \in 1..Len(TestUsers) : TestUsers[i].c[segments[k]] # NaN) =>
            \A var \in RatingsDone(segments[k]) :
                \A i \in 1..Len(RowsOf(segments[k], var)) :
                    RowsOf(segments[k], var)[i].Test = "Mann-Whitney-U" =>
                        \E a, b \in SegmentStrings(segments[k]) :
                            /\ TextLess(a, b)
                            /\ RowsOf(segments[k], var)[i]
                                 = [Segment |-> segments[k], Variable |-> var]
                                   @@ MannWhitneyRow(RatingsIn(segments[k], a, var),
                                                     RatingsIn(segments[k], b, var))

(***************************************************************************)
(* Properties of the runs over a table without users                       *)
(***************************************************************************)
\* C15: when no respondent of the loaded table is a user (A101 = 1), the
\* segment analysis is skipped without raising: it writes no result table and
\* no chart.
C15_NoUsersSkipped ==
    Subset(1) = <<>> => (pc.fn # "raised" /\ out = <<>>)

(***************************************************************************)
(* The loaded table under the computations                                 *)
(***************************************************************************)
\* The descriptive run, the segment analysis or the significance tests over
\* a loaded table.
InitAnalyses == InitMulti \/ InitQuestion \/ InitSegment \/ InitTests

NextAnalyses == NextDesc \/ NextSegment \/ NextTests

SpecAnalyses == InitAnalyses /\ [][NextAnalyses]_vars

\* C20: no step of the descriptive run, of the segment analysis or of the
\* significance tests changes the loaded table: df holds after the step what
\* it held before; the coerced segment column and the label column are
\* columns of the script's own table of the users.
C20_LoadedTableUnchanged == [][df' = df]_vars

\* The significance tests hold the segment column of their users as strings
\* while the loaded table holds the numbers.
C20_Witness ==
    /\ pc.fn = "tests_rank"
    /\ \E i \in 1..Len(users) :
          /\ users[i].c[seg] = StrVal("1")
          /\ Subset(1)[i].c[seg] = IntVal(1)

(***************************************************************************)
(* comparison_analysis.py over the tables of the three feature questions   *)
(***************************************************************************)
\* The codebooks of the comparison: the features under the same labels in the
\* three questions; the ratings under labels of their own; no ratings.
CodebookComparison ==
    << VarRow(Var("A101", 0), Txt("Nutzung"), "NOMINAL"),
       VarRow(Var("A301", 1), Prefixed("A301", long_label_1), "ORDINAL"),
       VarRow(Var("A301", 2), Prefixed("A301", long_label_2), "ORDINAL"),
       VarRow(Var("A302", 1), Prefixed("A302", long_label_1), "DICHOTOMOUS"),
       VarRow(Var("A302", 2), Prefixed("A302", long_label_2), "DICHOTOMOUS"),
       VarRow(Var("A305", 1), Prefixed("A305", long_label_1), "DICHOTOMOUS"),
       VarRow(Var("A305", 2), Prefixed("A305", long_label_2), "DICHOTOMOUS") >>

CodebookOwnLabels ==
    [i \in 1..Len(CodebookComparison) |->
        IF CodebookComparison[i].VAR.p = "A301"
        THEN [CodebookComparison[i] EXCEPT !.LABEL = Txt("Preis")]
        ELSE CodebookComparison[i]]

CodebookNoRatings == SelectSeq(CodebookComparison, LAMBDA r : r.VAR.p # "A301")

\* The largest number of respondent rows of a table of the comparison.
MaxRowsComparison == 2

\* The cells a column of a table of the comparison can hold.
ComparisonCells ==
    [var \in Columns(CodebookComparison) |->
    IF var = Var("A301", 1) THEN {IntVal(1), IntVal(3)}
    ELSE IF var.p = "A302" THEN {IntVal(1), IntVal(2)}
    ELSE IF var = Var("A305", 1) THEN {IntVal(1), IntVal(2)}
    ELSE {IntVal(2)}]

\* figures/descriptives after descriptive_stats.py has run over the table:
\* describe_multi has written A302_group.csv and A305_group.csv when the table
\* has a user.
FiguresOfDescriptives ==
    IF Len(Subset(1)) = 0 THEN <<>>
    ELSE WriteTo(WriteTo(<<>>, File("A302", 0, "group.csv"), MultiTable(Subset(1), "A302")),
                 File("A305", 0, "group.csv"), MultiTable(Subset(1), "A305"))

\* The comparison starts in a figures directory without files, or in the one
\* the descriptive run over the same table has left.
InitComparison ==
    /\ variables \in {CodebookComparison, CodebookOwnLabels, CodebookNoRatings}
    /\ value_map = <<>>
    /\ \E n \in 0..MaxRowsComparison :
         \E raw \in [1..n -> FeatureRows(Columns(variables), ComparisonCells)] : df = Load(raw)
    /\ pc = At("comparison_top2", 1)
    /\ out \in {<<>>, FiguresOfDescriptives}
    /\ recs = <<>>
    /\ args = <<>>
    /\ ret = <<>>
    /\ users = <<>>
    /\ seg = NoSeg

NextComparison == CompareTop2 \/ CompareShorten \/ CompareMerge

SpecComparison == InitComparison /\ [][NextComparison]_vars

(***************************************************************************)
(* Properties of the comparison                                            *)
(***************************************************************************)
\* C13: the comparison is an independent run over the loaded table: what the
\* merge gives with the files it finds in figures/descriptives is what it
\* gives in a directory no other analysis has written to.
C13_SameResultInIsolation ==
    pc = At("comparison_merge", 0) => MergeResult(out, recs) = MergeResult(<<>>, recs)

\* The two tables of the descriptive run are there to be read.
DescriptivesThere ==
    \A prefix \in {"A302", "A305"} : File(prefix, 0, "group.csv") \in DOMAIN out

ComparisonFile == File("comparison", 0, "A301_302_305.csv")

\* The labels of the A301 table, and of a table of the descriptive run.
RatingLabels ==
    {Shorten(normalize_label(LabelOrVar(a301_vars[i]))) :
        i \in {j \in 1..Len(a301_vars) : HasColumn(a301_vars[j])}}

OptionLabels(prefix) ==
    LET tab == out[File(prefix, 0, "group.csv")]
    IN  {normalize_label(tab[i].Option) : i \in 1..Len(tab)}

InAllThree == RatingLabels \cap OptionLabels("A302") \cap OptionLabels("A305")

\* C16: with the tables of the descriptive run in place, the comparison never
\* raises; when no label is in all three tables (one of them may have no
\* rows) it reports the empty merge and writes no comparison table, and
\* otherwise the table it writes holds exactly the labels of all three.
C16_EmptyMergeReported ==
    DescriptivesThere =>
        /\ pc.fn # "raised"
        /\ pc.fn \in {"comparison_empty", "comparison_plot"} =>
              IF InAllThree = {}
              THEN pc.fn = "comparison_empty" /\ ComparisonFile \notin DOMAIN out
              ELSE /\ pc.fn = "comparison_plot"
                   /\ {out[ComparisonFile][i].Merkmal : i \in 1..Len(out[ComparisonFile])}
                        = InAllThree

(***************************************************************************)
(* Properties of the descriptive run as a whole                            *)
(***************************************************************************)
\* C14: a step of the descriptive run that fails (a codebook variable has no
\* column in the table) does not abort the run: no exception leaves main, and
\* at its end describe_multi has written the A302 and A305 tables of a table
\* with users.
C14_FailureAbsorbed ==
    /\ pc.fn # "raised"
    /\ (pc = At("done", 0) /\ Len(Subset(1)) > 0) =>
          \A prefix \in {"A302", "A305"} : GroupFile(prefix) \in DOMAIN out

(***************************************************************************)
(* Properties of the groups of the significance tests                      *)
(***************************************************************************)
\* The numbers of a rating among the users with the segment value v.
RatingsOfValue(s, v, var) ==
    Numbers(NumericVals(SelectSeq(TestUsers, LAMBDA row : row.c[s] = v), var))

\* C21: the groups the significance tests compare for a segment are the
\* non-missing segment values observed among the users, a user without
\* segment value is in no group: a Mann-Whitney-U row means exactly two such
\* values and is the test of the ratings of the one against those of the
\* other, a Kruskal-Wallis row means more than two, and a chi-square row
\* means two at least.
C21_MissingValueInNoGroup ==
    \A k \in 1..Len(segments) :
        \A i \in 1..Len(SegmentRows(segments[k])) :
            LET s   == segments[k]
                row == SegmentRows(s)[i]
                n   == Cardinality(SegmentValues(s))
            IN  /\ row.Test = "Mann-Whitney-U" =>
                      /\ n = 2
                      /\ \E a, b \in SegmentValues(s) :
                            /\ a # b
                            /\ row = [Segment |-> s, Variable |-> row.Variable]
                                     @@ MannWhitneyRow(RatingsOfValue(s, a, row.Variable),
                                                       RatingsOfValue(s, b, row.Variable))
                /\ row.Test = "Kruskal-Wallis" => n > 2
                /\ row.Test = "Chi-Quadrat" => n >= 2

====
